---- MODULE Spec2Model ----
(***************************************************************************)
(* A model of the judging core of isolate-wrapper: the IsolateSandbox      *)
(* judge / get_outputs generators (src/main.py), the SourceCode unit       *)
(* (src/source_code.py) and the verdict helpers.                           *)
(*                                                                         *)
(* Strings are sequences of one-character strings, so that splitlines and  *)
(* rstrip are computed as Python computes them.                            *)
(***************************************************************************)
EXTENDS Integers, Sequences, FiniteSets, TLC

\* ------------------------------------------------------------------ bounds

\* The largest number of testcases (or inputs) of one judging operation.
MaxTests == 2

\* The longest list of verdicts handed to decide_final_verdict.
MaxVerdicts == 3

\* The largest memory limit and max-rss (KB) handed to decide_RE_verdict.
MaxKB == 11

\* The largest number of prepare_if_needed calls on one SourceCode.
MaxCalls == 3

\* The longest text handed to check_output.
MaxLen == 3

\* The longest stderr digested, in items.
MaxErr == 5

\* The longest program the interpreter runs, in lines.
MaxLines == 2

\* config.MAX_BOX, the number of box ids create() scans: 1000 in the
\* configuration, fewer here.
MAX_BOX == 2

\* The number of IsolateSandbox objects, and the largest number of judging
\* operations started on one of them.
NumSandboxes == 3

MaxOps == 2

\* ----------------------------------------------------------------- strings

NL == "\n"
CR == "\r"
SP == " "
TAB == "\t"

\* str.splitlines: the characters that end a line (of the modelled alphabet).
LineBreaks == {NL, CR}

\* str.rstrip(): the characters removed from the end (of the modelled alphabet).
Whitespace == {SP, TAB, NL, CR}

\* str.splitlines(): every line break ends the current line (an empty one
\* included), "\r\n" counts as one break, and the text after the last break
\* is a line only if it is not empty.
RECURSIVE SplitFrom(_, _, _, _)
SplitFrom(s, i, cur, acc) ==
    IF i > Len(s)
    THEN IF cur = <<>> THEN acc ELSE Append(acc, cur)
    ELSE IF s[i] \in LineBreaks
         THEN IF s[i] = CR /\ i < Len(s) /\ s[i + 1] = NL
              THEN SplitFrom(s, i + 2, <<>>, Append(acc, cur))
              ELSE SplitFrom(s, i + 1, <<>>, Append(acc, cur))
         ELSE SplitFrom(s, i + 1, Append(cur, s[i]), acc)

splitlines(s) == SplitFrom(s, 1, <<>>, <<>>)

\* str.rstrip(): drop the trailing whitespace.
RECURSIVE rstrip(_)
rstrip(s) ==
    IF s /= <<>> /\ s[Len(s)] \in Whitespace
    THEN rstrip(SubSeq(s, 1, Len(s) - 1))
    ELSE s

\* A mutant of check_output: the lines are compared as they are.
check_output_NoStrip(output, answer) ==
    LET output_lines == splitlines(output)
        answer_lines == splitlines(answer)
    IN  IF Len(output_lines) /= Len(answer_lines)
        THEN FALSE
        ELSE \A i \in 1..Len(output_lines) : output_lines[i] = answer_lines[i]

\* IsolateSandbox.check_output
check_output(output, answer) ==
    LET output_lines == splitlines(output)
        answer_lines == splitlines(answer)
    IN  IF Len(output_lines) /= Len(answer_lines)
        THEN FALSE
        ELSE \A i \in 1..Len(output_lines) :
                 rstrip(output_lines[i]) = rstrip(answer_lines[i])

\* ---------------------------------------------------------------- verdicts

\* custom_types.Verdict
Verdict == {"AC", "WA", "TLE", "MLE", "RE", "CE", "SE", "WJ", "NOF"}

\* A mutant of decide_final_verdict's list: WA and RE have changed places.
verdict_importance_order_Swapped ==
    <<"WJ", "SE", "CE", "NOF", "RE", "WA", "TLE", "MLE">>

\* decide_final_verdict's local list.
verdict_importance_order == <<"WJ", "SE", "CE", "NOF", "WA", "RE", "TLE", "MLE">>

\* Python's `x in list`.
InList(x, list) == \E i \in 1..Len(list) : list[i] = x

\* The for loop of decide_final_verdict from position i of the order on.
RECURSIVE FinalFrom(_, _)
FinalFrom(i, verdicts) ==
    IF i > Len(verdict_importance_order)
    THEN "AC"
    ELSE IF InList(verdict_importance_order[i], verdicts)
         THEN verdict_importance_order[i]
         ELSE FinalFrom(i + 1, verdicts)

\* IsolateSandbox.decide_final_verdict
decide_final_verdict(verdicts) == FinalFrom(1, verdicts)

\* What decide_RE_verdict ends with when it raises (KeyError on a missing
\* status, Exception('Unexpected metadata status.') on an unknown one).
Raised == "raised"

\* A metadata dictionary: a function from the keys present to their values.
MetaKeys == {"status", "time", "max-rss"}

MkMeta(keys, st, t, rss) ==
    [k \in keys |-> CASE k = "status" -> st
                      [] k = "time" -> t
                      [] OTHER -> rss]

EmptyMeta == MkMeta({}, "", 0, 0)

\* A mutant of the comparison of decide_RE_verdict: at 80% already.
OverEighty_AtLeast(rss, memory_limit) == 5 * rss >= 4 * memory_limit

\* float(metadata['max-rss']) > memory_limit * 0.8 on integers: the double
\* nearest to 0.8 times an integer n is 4n/5 exactly when 5 divides n and is
\* not an integer otherwise, so the comparison is 5 * rss > 4 * limit.
OverEighty(rss, memory_limit) == 5 * rss > 4 * memory_limit

\* IsolateSandbox.decide_RE_verdict
decide_RE_verdict(metadata, memory_limit) ==
    IF "status" \notin DOMAIN metadata THEN Raised
    ELSE IF metadata["status"] = "XX" THEN "SE"
    ELSE IF metadata["status"] = "TO" THEN "TLE"
    ELSE IF metadata["status"] \in {"RE", "SG"}
         THEN IF "max-rss" \in DOMAIN metadata
                 /\ OverEighty(metadata["max-rss"], memory_limit)
              THEN "MLE"
              ELSE "RE"
    ELSE IF metadata["status"] = "OK" THEN "AC"
    ELSE Raised

\* ------------------------------------------------------------- SourceCode

\* custom_types.Language
Language == {"PYTHON", "CPLUSPLUS", "AQAASM"}

\* Python's None, for the optional strings (box_path, file_in, file_out).
None == "None"

\* An optional list (run_args): {} is None, {l} is the list l.
Null == {}
Some(x) == {x}
The(o) == CHOOSE x \in o : TRUE

\* config.PYTHON_PATH
PYTHON_PATH == "/usr/bin/python3"

\* The line prepare_if_needed puts before a PYTHON source with
\* python_ignore_prompts.
PromptPrefix == "TOPYC_INPUT = input; input = lambda _=0: TOPYC_INPUT()\n"

\* The message of a prepare_if_needed call after a failed compilation.
SeeFirst == "See error details in the first testcase."

\* SourceCode.__init__: a source text is a sequence of chunks of text.
NewSourceCode(code, language, box_path, python_ignore_prompts) ==
    [code |-> code,
     language |-> language,
     run_args |-> Null,
     aqaasm_inputs |-> <<"100">>,
     aqaasm_outputs |-> <<"101">>,
     python_ignore_prompts |-> python_ignore_prompts,
     box_path |-> box_path,
     file_name |-> "code"]

\* os.path.join(box_path, name)
Join(box_path, name) == <<box_path, name>>

\* Files are a set of [path, content]; writing replaces the file at path.
WriteFile(fs, path, content) ==
    {f \in fs : f.path /= path} \cup {[path |-> path, content |-> content]}

HasFile(fs, path) == \E f \in fs : f.path = path

ReadFile(fs, path) == (CHOOSE f \in fs : f.path = path).content

\* `echo code > path`: the text and a newline.
Echo(code) == Append(code, NL)

\* What g++ can do with a source: compile it silently, reject it, or
\* compile it with warnings on stderr.
GppOutcomes ==
    {[stderr |-> "", exe |-> TRUE],
     [stderr |-> "code.cpp:1:20: error: return-statement with no value", exe |-> FALSE],
     [stderr |-> "code.cpp:1:5: warning: unused variable", exe |-> TRUE]}

\* A mutant of prepare_if_needed's first test: an already prepared source is
\* prepared again.
IsPrepared_Never(sc) == FALSE

\* `self.run_args is not None`
IsPrepared(sc) == sc.run_args /= Null

\* A mutant of the compile branch: run_args keeps [file_name] when the
\* compiler wrote to stderr.
CompiledArgs_Keep(sc, stderr) == Some(<<sc.file_name>>)

\* Lines 84-87: run_args after the compiler ran.
CompiledArgs(sc, stderr) ==
    IF stderr /= "" THEN Some(<<>>) ELSE Some(<<sc.file_name>>)

\* SourceCode.prepare_if_needed on the files fs, g++ behaving as gpp.
\* The result: the object after the call, the files after it, the returned
\* message, whether the call raised, and the compiler runs it made.
prepare_if_needed(sc, fs, gpp) ==
    IF IsPrepared(sc)
    THEN [sc |-> sc, fs |-> fs, raised |-> FALSE, compiled |-> <<>>,
          msg |-> IF sc.run_args = Some(<<>>) THEN SeeFirst ELSE ""]
    ELSE IF sc.language = "PYTHON"
    THEN LET code1 == IF sc.python_ignore_prompts
                      THEN <<PromptPrefix>> \o sc.code
                      ELSE sc.code
             sc1 == [sc EXCEPT !.code = code1]
         IN  IF sc.box_path = None
             THEN [sc |-> sc1, fs |-> fs, raised |-> TRUE, compiled |-> <<>>,
                   msg |-> ""]
             ELSE [sc |-> [sc1 EXCEPT !.run_args =
                                 Some(<<PYTHON_PATH, sc.file_name \o ".py">>)],
                   fs |-> WriteFile(fs, Join(sc.box_path, sc.file_name \o ".py"),
                                    Echo(code1)),
                   raised |-> FALSE, compiled |-> <<>>, msg |-> ""]
    ELSE IF sc.box_path = None
    THEN [sc |-> sc, fs |-> fs, raised |-> TRUE, compiled |-> <<>>, msg |-> ""]
    ELSE IF sc.language = "CPLUSPLUS"
    THEN LET code_path == Join(sc.box_path, sc.file_name \o ".cpp")
             exe_path == Join(sc.box_path, sc.file_name)
             fs1 == WriteFile(fs, code_path, Echo(sc.code))
             fs2 == IF gpp.exe
                    THEN WriteFile(fs1, exe_path, <<"exe">> \o sc.code)
                    ELSE fs1
         IN  [sc |-> [sc EXCEPT !.run_args = CompiledArgs(sc, gpp.stderr)],
              fs |-> fs2, raised |-> FALSE,
              compiled |-> <<[file |-> code_path, stderr |-> gpp.stderr]>>,
              msg |-> gpp.stderr]
    ELSE LET code_path == Join(sc.box_path, sc.file_name \o ".aqaasm")
             interpreter_path == Join(sc.box_path, "aqaasm.py")
             fs1 == WriteFile(fs, code_path, Echo(sc.code))
             fs2 == WriteFile(fs1, interpreter_path, Echo(<<"aqaasm.py">>))
         IN  [sc |-> [sc EXCEPT !.run_args =
                             Some(<<PYTHON_PATH, "aqaasm.py",
                                    sc.file_name \o ".aqaasm", "-i">>
                                  \o sc.aqaasm_inputs \o <<"-o">>
                                  \o sc.aqaasm_outputs)],
              fs |-> fs2, raised |-> FALSE, compiled |-> <<>>, msg |-> ""]

\* ---------------------------------------------------------- the sandbox run

\* config.METADATA_FOLDER
METADATA_FOLDER == "metadata"

\* constants.COMPILATION_ERROR_RETURN_CODE and NO_OUTPUT_FILE_RETURN_CODE:
\* sentinels that no process exit code equals.
COMPILATION_ERROR_RETURN_CODE == -1001

NO_OUTPUT_FILE_RETURN_CODE == -1002

\* The sandbox's "time: <sec>.<msec>" as <<sec, msec>>, and
\* int(float(metadata['time']) * 1000).
TimeMs(t) == t[1] * 1000 + t[2]

\* int(metadata['max-rss'])
MemoryKB(rss) == rss

\* The metadata the sandbox can leave after a run that exits zero ...
OkMetas == {MkMeta({"time", "max-rss"}, "", <<0, 120>>, 5)}

\* ... and after one that does not: every status of the contract, with and
\* without max-rss, below and above 80% of the limits used, an unknown
\* status, and no status at all.
FailMetas ==
    {MkMeta({"status", "time", "max-rss"}, "RE", <<0, 130>>, 5),
     MkMeta({"status", "time", "max-rss"}, "SG", <<0, 130>>, 17),
     MkMeta({"status", "time"}, "TO", <<2, 0>>, 0),
     MkMeta({"status"}, "XX", <<0, 0>>, 0),
     MkMeta({"status", "time", "max-rss"}, "OK", <<0, 130>>, 5),
     MkMeta({"status", "time", "max-rss"}, "ZZ", <<0, 130>>, 5),
     MkMeta({"time", "max-rss"}, "", <<0, 130>>, 5)}

\* The stderr of a run: the lines the sandbox ends it with, after the
\* traceback of a failing program.
OkStderr == <<"O", "K", NL>>

FailStderr == <<"Traceback (most recent call last):", NL, "E", NL, "x", NL>>

\* What the user's program prints, and what it writes to the output file.
GoodOut == <<"7", NL>>
BadOut == <<"8", NL>>

\* One run of the user's program in the sandbox: stdout, stderr, the exit
\* code, the metadata the sandbox writes, and the
\* content the program writes to the output file ({} when it writes none).
ProcOutcomes(file_out) ==
    LET writes == IF file_out = None
                  THEN {{}}
                  ELSE {{}, {GoodOut}, {BadOut}}
        partial == IF file_out = None THEN {{}} ELSE {{}, {BadOut}}
    IN  [stdout : {GoodOut, BadOut}, stderr : {OkStderr}, rc : {0},
         meta : OkMetas, wrote : writes]
        \cup
        [stdout : {<<"8">>}, stderr : {FailStderr},
         rc : {1}, meta : FailMetas, wrote : partial]

\* What a grader prints.
GraderOuts ==
    {<<"A", "C">>, <<"A", "C", SP, CR, NL>>, <<SP, "A", "C">>,
     <<"W", "A", NL>>, <<"A", "C", NL, NL>>, <<"m", "a", "y", "b", "e">>}

\* One run of the grader in the sandbox.
GraderOutcomes ==
    [stdout : GraderOuts, stderr : {OkStderr}, rc : {0},
     meta : {MkMeta({"time", "max-rss"}, "", <<0, 900>>, 9)}, wrote : {{}}]
    \cup
    [stdout : {<<>>}, stderr : {FailStderr}, rc : {1},
     meta : {MkMeta({"status", "time", "max-rss"}, "RE", <<0, 910>>, 9)},
     wrote : {{}}]

\* Line 122: `time_limit //= 1000`.
Seconds(time_limit) == time_limit \div 1000

\* str.split('\n'): the fields between the newlines, the empty ones and
\* the one after the last newline included.
RECURSIVE SplitNL(_, _, _)
SplitNL(s, cur, acc) ==
    IF s = <<>> THEN Append(acc, cur)
    ELSE IF Head(s) = NL
         THEN SplitNL(Tail(s), <<>>, Append(acc, cur))
         ELSE SplitNL(Tail(s), Append(cur, Head(s)), acc)

\* '\n'.join(fields)
RECURSIVE JoinNL(_)
JoinNL(fields) ==
    IF fields = <<>> THEN <<>>
    ELSE IF Len(fields) = 1 THEN fields[1]
    ELSE fields[1] \o <<NL>> \o JoinNL(Tail(fields))

\* Line 139: '\n'.join(stderr.split('\n')[:-2])
ErrorRaw(stderr) ==
    LET fields == SplitNL(stderr, <<>>, <<>>)
    IN  IF Len(fields) <= 2 THEN <<>>
        ELSE JoinNL(SubSeq(fields, 1, Len(fields) - 2))

\* The markers the digests look for; each is one item of a text and stands
\* for its characters.
TracebackMarker == "Traceback (most recent call last):"

ExceptionMarker == "Exception: "

\* str.find and str.rfind of an item: the position of its first and of its
\* last occurrence, 0 (for Python's -1) when there is none.
find(s, x) ==
    IF \E i \in 1..Len(s) : s[i] = x
    THEN CHOOSE i \in 1..Len(s) : s[i] = x /\ \A j \in 1..(i - 1) : s[j] /= x
    ELSE 0

rfind(s, x) ==
    IF \E i \in 1..Len(s) : s[i] = x
    THEN CHOOSE i \in 1..Len(s) :
             s[i] = x /\ \A j \in (i + 1)..Len(s) : s[j] /= x
    ELSE 0

\* Line 141: error_raw.find('Traceback (most recent call last):')
TracebackStart(error_raw) == find(error_raw, TracebackMarker)

\* Lines 141-142: the digest of a PYTHON source.
PythonError(error_raw) ==
    LET error_start == TracebackStart(error_raw)
    IN  IF error_start /= 0
        THEN SubSeq(error_raw, error_start, Len(error_raw))
        ELSE error_raw

\* str.split(): the items that are no whitespace, here one token each.
RECURSIVE Tokens(_)
Tokens(s) ==
    IF s = <<>> THEN <<>>
    ELSE IF Head(s) \in Whitespace THEN Tokens(Tail(s))
    ELSE <<Head(s)>> \o Tokens(Tail(s))

\* The items int() accepts: a number of one digit is one item.
IntOf(item) ==
    IF \E n \in 0..9 : ToString(n) = item
    THEN {CHOOSE n \in 0..9 : ToString(n) = item}
    ELSE {}

\* Lines 144-154: the digest of an AQAASM source. When the last token is
\* no number (or there is no token) int() raises and the digest is
\* error_raw. Otherwise it is the text after the last 'Exception: ' (from
\* offset 10 when there is none), the line number and that line of the
\* code; a line number outside the code is left to IndexError.
AqaasmError(sc, error_raw) ==
    LET tokens == Tokens(error_raw)
    IN  IF tokens = <<>> \/ IntOf(tokens[Len(tokens)]) = {}
        THEN error_raw
        ELSE LET line_num == The(IntOf(tokens[Len(tokens)]))
                 at == rfind(error_raw, ExceptionMarker)
                 from == IF at /= 0 THEN at + 1 ELSE 11
                 lines == SplitNL(sc.code, <<>>, <<>>)
                 line == IF line_num \in 1..Len(lines) THEN lines[line_num]
                         ELSE IF line_num = 0 THEN lines[Len(lines)]
                         ELSE <<"IndexError">>
             IN  SubSeq(error_raw, from, Len(error_raw))
                 \o <<NL, SP, SP, "Line ", ToString(line_num), ":", NL,
                      SP, SP, SP, SP>>
                 \o line

\* Lines 139-156: the error text run returns; C++ sources get none.
ErrorOf(sc, proc) ==
    IF sc.language = "PYTHON" THEN PythonError(ErrorRaw(proc.stderr))
    ELSE IF sc.language = "AQAASM" THEN AqaasmError(sc, ErrorRaw(proc.stderr))
    ELSE ""

\* SourceCode.run: the sandbox invocation, and what run returns when the
\* process behaves as proc.
run(sc, box_id, metadata_path, time_limit, memory_limit, input, proc) ==
    [inv |-> [box_id |-> box_id, M |-> metadata_path,
              t |-> Seconds(time_limit), w |-> Seconds(time_limit) + 1,
              m |-> memory_limit, argv |-> The(sc.run_args), stdin |-> input],
     output |-> proc.stdout,
     error |-> ErrorOf(sc, proc),
     return_code |-> proc.rc]

\* run_code's return tuple.
Ret(output, error, metadata, return_code) ==
    [output |-> output, error |-> error, metadata |-> metadata,
     return_code |-> return_code]

\* Lines 263-269: the content read from the output file, {} when open()
\* raises FileNotFoundError.
OutputFileOf(fs, path, proc) ==
    IF HasFile(fs, path) THEN {ReadFile(fs, path)} ELSE {}

\* IsolateSandbox.run_code of the sandbox self = [box_id, box_path], on the
\* files fs and the metadata file mf; env = [gpp, proc]: g++ behaves as
\* env.gpp and the sandboxed process as env.proc. The result: run_code's
\* return tuple, the SourceCode and the files after the call, the metadata
\* file after it, the sandbox invocation ({} when there was none) and the
\* compiler runs made.
run_code(self, sc, input, time_limit, memory_limit, file_in, file_out, fs, mf, env) ==
    LET metadata_path == Join(METADATA_FOLDER, self.box_id)
        box_path == self.box_path
        proc == env.proc
        p == prepare_if_needed([sc EXCEPT !.box_path = box_path], fs, env.gpp)
    IN  IF p.msg /= ""
        THEN [ret |-> Ret(<<>>, p.msg, EmptyMeta, COMPILATION_ERROR_RETURN_CODE),
              sc |-> p.sc, fs |-> p.fs, mf |-> mf, inv |-> {}, compiled |-> p.compiled]
        ELSE LET fs1 == IF file_in /= None
                        THEN WriteFile(p.fs, Join(box_path, file_in), input)
                        ELSE p.fs
                 input1 == IF file_in /= None THEN <<>> ELSE input
                 r == run(p.sc, self.box_id, metadata_path, time_limit,
                          memory_limit, input1, proc)
                 fs2 == IF proc.wrote /= {}
                        THEN WriteFile(fs1, Join(box_path, file_out),
                                       The(proc.wrote))
                        ELSE fs1
                 read == OutputFileOf(fs2, Join(box_path, file_out), proc)
             IN  IF file_out /= None /\ read = {}
                 THEN [ret |-> Ret(<<>>, "", EmptyMeta, NO_OUTPUT_FILE_RETURN_CODE),
                       sc |-> p.sc, fs |-> fs2, mf |-> Some(proc.meta),
                       inv |-> {r.inv}, compiled |-> p.compiled]
                 ELSE [ret |-> Ret(IF file_out /= None THEN The(read) ELSE r.output,
                                   r.error, proc.meta, r.return_code),
                       sc |-> p.sc, fs |-> fs2, mf |-> Some(proc.meta),
                       inv |-> {r.inv}, compiled |-> p.compiled]

\* Lines 158-165: the Result yielded for a verdict.
Result(verdict, metadata, message) ==
    [verdict |-> verdict,
     time |-> IF "time" \in DOMAIN metadata THEN TimeMs(metadata["time"]) ELSE -1,
     memory |-> IF "max-rss" \in DOMAIN metadata
                THEN MemoryKB(metadata["max-rss"]) ELSE -1,
     message |-> message]

\* A mutant of the grader's input: the output alone.
GraderInput_OutputOnly(testcase, output) == output

\* Line 139: grader_input = testcase.input + '\n' + output
GraderInput(testcase, output) == testcase.input \o <<NL>> \o output

\* Lines 141-151: the verdict after the grader's run_code returned gret.
GraderVerdict(gret) ==
    IF gret.return_code /= 0 THEN "SE"
    ELSE IF check_output(gret.output, <<"A", "C">>) THEN "AC"
    ELSE IF check_output(gret.output, <<"W", "A">>) THEN "WA"
    ELSE "SE"

\* ------------------------------------------------- one judging operation

VARIABLES
    op,            \* "judge" or "get_outputs"
    testcases,     \* the testcases: [input, answer]
    time_limit,    \* milliseconds
    memory_limit,  \* KB
    file_in,       \* None or the input file's name
    file_out,      \* None or the output file's name
    source,        \* the submitted SourceCode
    grader,        \* Null or Some(the grader's SourceCode)
    self,          \* the IsolateSandbox: [box_id, box_path]
    box_live,      \* whether the box is initialised (--init, no --cleanup yet)
    fs,            \* the files: a set of [path, content]
    mf,            \* the metadata file of the box: Null or Some(metadata)
    gen,           \* where the generator is
    idx,           \* the number of testcases the for loop has taken
    requested,     \* the number of next() calls of the consumer
    yielded,       \* the Results yielded so far
    outputs,       \* get_outputs: the outputs yielded so far
    cleanups,      \* the number of `isolate --cleanup` invocations
    compiles,      \* the g++ invocations so far: [file, stderr]
    runs,          \* the `isolate --run` invocations so far
    last,          \* what happened on the testcase taken last
    args,          \* the arguments of the function applied last
    out,           \* what it returned
    boxes,         \* the box ids the sandbox tool holds initialised
    sandboxes,     \* the IsolateSandbox objects of the processes
    sweep,         \* where a cleanup_all is, and the ids it has still to clean
    aqaai,         \* the AQAAssemblyInterpreter object
    code_lines,    \* the lines of the program it runs
    ended          \* how its run ended, Running while it runs

judgeVars ==
    <<op, testcases, time_limit, memory_limit, file_in, file_out, source,
      grader, self, box_live, fs, mf, gen, idx, requested, yielded, outputs,
      cleanups, compiles, runs, last>>

fnVars == <<args, out>>

poolVars == <<boxes, sandboxes, sweep>>

asmVars == <<aqaai, code_lines, ended>>

vars == <<judgeVars, fnVars, poolVars, asmVars>>

NoRet == Ret(<<>>, "", EmptyMeta, 0)

NoLast ==
    [tc |-> 0, proc |-> {}, inv |-> {}, ret |-> NoRet,
     ginv |-> {}, gproc |-> {}, gret |-> {}]

\* Testcase i: its input names it, its answer is what GoodOut matches.
TestcaseAt(i) == [input |-> <<ToString(i), NL>>, answer |-> <<"7">>]

\* IsolateSandbox.__init__ with every box free: create() takes box 0.
NewSandbox == [box_id |-> 0, box_path |-> "/var/local/lib/isolate/0/box"]

\* The limits of an operation: <<time_limit (ms), memory_limit (KB)>>.
Limits == {<<500, 10>>, <<2000, 20>>}

FnIdle == args = <<>> /\ out = <<>>

\* No sandbox besides the one of the operation, and no interpreter.
PoolIdle == boxes = {} /\ sandboxes = <<>> /\ sweep = <<>>

AsmIdle == aqaai = <<>> /\ code_lines = <<>> /\ ended = <<>>

Init ==
    /\ op \in {"judge", "get_outputs"}
    /\ \E n \in 0..MaxTests : testcases = [i \in 1..n |-> TestcaseAt(i)]
    /\ \E l \in Limits : time_limit = l[1] /\ memory_limit = l[2]
    /\ file_in \in {None, "in.txt"}
    /\ file_out \in {None, "out.txt"}
    /\ \E l \in Language : source = NewSourceCode(<<"code">>, l, None, FALSE)
    /\ grader \in {Null} \cup
                  (IF op = "judge"
                   THEN {Some(NewSourceCode(<<"grader">>, l, None, FALSE)) :
                           l \in {"PYTHON", "CPLUSPLUS"}}
                   ELSE {})
    /\ self = NewSandbox
    /\ box_live = TRUE
    /\ fs = {}
    /\ mf = Null
    /\ gen = "created"
    /\ idx = 0
    /\ requested = 0
    /\ yielded = <<>>
    /\ outputs = <<>>
    /\ cleanups = 0
    /\ compiles = <<>>
    /\ runs = <<>>
    /\ last = NoLast
    /\ FnIdle
    /\ PoolIdle
    /\ AsmIdle

\* The g++ behaviours that matter to a run_code call on sc: one when the
\* compiler is not run.
GppFor(sc) ==
    IF sc.language = "CPLUSPLUS" /\ sc.run_args = Null
    THEN GppOutcomes
    ELSE {[stderr |-> "", exe |-> TRUE]}

\* IsolateSandbox.cleanup: `isolate --box-id <id> --cleanup` removes the box.
Cleanup ==
    /\ cleanups' = cleanups + 1
    /\ box_live' = FALSE
    /\ fs' = {f \in fs : f.path[1] /= self.box_path}

\* generator.close() before the first next(): the body never started, so
\* neither the try statement nor its finally block runs.
CloseUnstarted == UNCHANGED <<cleanups, box_live, fs>>

\* The consumer calls next(): the generator starts (lines 117-121) or
\* resumes after its yield.
Request ==
    /\ gen \in {"created", "suspended"}
    /\ gen' = "running"
    /\ requested' = requested + 1
    /\ last' = NoLast
    /\ grader' = IF gen = "created" /\ grader /= Null
                 THEN Some([The(grader) EXCEPT !.file_name = "grader"])
                 ELSE grader
    /\ UNCHANGED <<op, testcases, time_limit, memory_limit, file_in, file_out,
                   source, self, box_live, fs, mf, idx, yielded, outputs,
                   cleanups, compiles, runs, fnVars, poolVars, asmVars>>

\* The record of a sandbox invocation in runs.
RunEntry(who, tc) ==
    [who |-> who, tc |-> tc, yielded |-> Len(yielded), requested |-> requested]

\* `for testcase in testcases`: the item of the i-th iteration.
LoopItem(list, i) == list[i]

\* The for loop takes the next testcase and calls run_code on the source
\* (lines 122-126, 197-198).
RunCode ==
    /\ gen = "running"
    /\ idx < Len(testcases)
    /\ \E gpp \in GppFor(source) : \E proc \in ProcOutcomes(file_out) :
         LET r == run_code(self, source, LoopItem(testcases, idx + 1).input, time_limit,
                           memory_limit, file_in, file_out, fs, mf,
                           [gpp |-> gpp, proc |-> proc])
         IN  /\ idx' = idx + 1
             /\ source' = r.sc
             /\ fs' = r.fs
             /\ mf' = r.mf
             /\ compiles' = compiles \o r.compiled
             /\ runs' = IF r.inv = {} THEN runs
                        ELSE Append(runs, RunEntry("code", idx + 1))
             /\ last' = [NoLast EXCEPT !.tc = idx + 1,
                                       !.proc = IF r.inv = {} THEN {} ELSE {proc},
                                       !.inv = r.inv,
                                       !.ret = r.ret]
             /\ gen' = "classify"
    /\ UNCHANGED <<op, testcases, time_limit, memory_limit, file_in, file_out,
                   grader, self, box_live, requested, yielded, outputs,
                   cleanups, fnVars, poolVars, asmVars>>

\* A mutant of the yield statement: the generator goes on with the next
\* testcase without waiting for the consumer.
Yield_NoSuspend(result) ==
    /\ yielded' = Append(yielded, result)
    /\ outputs' = IF op = "get_outputs"
                  THEN Append(outputs, last.ret.output)
                  ELSE outputs
    /\ gen' = "running"

\* The yield statement (lines 166, 214).
Yield(result) ==
    /\ yielded' = Append(yielded, result)
    /\ outputs' = IF op = "get_outputs"
                  THEN Append(outputs, last.ret.output)
                  ELSE outputs
    /\ gen' = "suspended"

frame == <<op, testcases, time_limit, memory_limit, file_in, file_out, self>>

\* Lines 128-130, 200-202.
ClassifyCE ==
    /\ gen = "classify"
    /\ last.ret.return_code = COMPILATION_ERROR_RETURN_CODE
    /\ Yield(Result("CE", last.ret.metadata, last.ret.error))
    /\ UNCHANGED <<frame, source, grader, box_live, fs, mf, idx, requested,
                   cleanups, compiles, runs, last, fnVars, poolVars, asmVars>>

\* Lines 131-132, 203-204.
ClassifyNOF ==
    /\ gen = "classify"
    /\ last.ret.return_code = NO_OUTPUT_FILE_RETURN_CODE
    /\ Yield(Result("NOF", last.ret.metadata, ""))
    /\ UNCHANGED <<frame, source, grader, box_live, fs, mf, idx, requested,
                   cleanups, compiles, runs, last, fnVars, poolVars, asmVars>>

NonZero(rc) ==
    rc \notin {0, COMPILATION_ERROR_RETURN_CODE, NO_OUTPUT_FILE_RETURN_CODE}

\* Lines 133-135, 205-207, decide_RE_verdict returning.
ClassifyRE ==
    /\ gen = "classify"
    /\ NonZero(last.ret.return_code)
    /\ decide_RE_verdict(last.ret.metadata, memory_limit) /= Raised
    /\ Yield(Result(decide_RE_verdict(last.ret.metadata, memory_limit),
                    last.ret.metadata, last.ret.error))
    /\ UNCHANGED <<frame, source, grader, box_live, fs, mf, idx, requested,
                   cleanups, compiles, runs, last, fnVars, poolVars, asmVars>>

\* Lines 133-134, 205-206, decide_RE_verdict raising: the exception leaves
\* the loop through the finally block (lines 167-170, 215-218) and reaches
\* the consumer.
ClassifyRaise ==
    /\ gen = "classify"
    /\ NonZero(last.ret.return_code)
    /\ decide_RE_verdict(last.ret.metadata, memory_limit) = Raised
    /\ Cleanup
    /\ gen' = "raised"
    /\ UNCHANGED <<frame, source, grader, mf, idx, requested, yielded,
                   outputs, compiles, runs, last, fnVars, poolVars, asmVars>>

\* A grader step that keeps the metadata of the grader's run_code instead
\* of dropping it.
ClassifyGraded_GraderMetadata ==
    /\ gen = "classify"
    /\ op = "judge"
    /\ last.ret.return_code = 0
    /\ grader /= Null
    /\ \E gpp \in GppFor(The(grader)) : \E gproc \in GraderOutcomes :
         LET g == run_code(self, The(grader),
                           GraderInput(LoopItem(testcases, idx), last.ret.output),
                           time_limit, memory_limit, None, None, fs, mf,
                           [gpp |-> gpp, proc |-> gproc])
         IN  /\ grader' = Some(g.sc)
             /\ fs' = g.fs
             /\ mf' = g.mf
             /\ compiles' = compiles \o g.compiled
             /\ runs' = IF g.inv = {} THEN runs
                        ELSE Append(runs, RunEntry("grader", idx))
             /\ last' = [last EXCEPT !.ginv = g.inv,
                                     !.gproc = IF g.inv = {} THEN {} ELSE {gproc},
                                     !.gret = {g.ret}]
             /\ Yield(Result(GraderVerdict(g.ret), g.ret.metadata, ""))
    /\ UNCHANGED <<frame, source, box_live, idx, requested, cleanups, fnVars, poolVars, asmVars>>

\* Lines 137-151: the grader decides.
ClassifyGraded ==
    /\ gen = "classify"
    /\ op = "judge"
    /\ last.ret.return_code = 0
    /\ grader /= Null
    /\ \E gpp \in GppFor(The(grader)) : \E gproc \in GraderOutcomes :
         LET g == run_code(self, The(grader),
                           GraderInput(LoopItem(testcases, idx), last.ret.output),
                           time_limit, memory_limit, None, None, fs, mf,
                           [gpp |-> gpp, proc |-> gproc])
         IN  /\ grader' = Some(g.sc)
             /\ fs' = g.fs
             /\ mf' = g.mf
             /\ compiles' = compiles \o g.compiled
             /\ runs' = IF g.inv = {} THEN runs
                        ELSE Append(runs, RunEntry("grader", idx))
             /\ last' = [last EXCEPT !.ginv = g.inv,
                                     !.gproc = IF g.inv = {} THEN {} ELSE {gproc},
                                     !.gret = {g.ret}]
             /\ Yield(Result(GraderVerdict(g.ret), last.ret.metadata, ""))
    /\ UNCHANGED <<frame, source, box_live, idx, requested, cleanups, fnVars, poolVars, asmVars>>

\* Lines 152-156: the checker decides.
ClassifyChecked ==
    /\ gen = "classify"
    /\ op = "judge"
    /\ last.ret.return_code = 0
    /\ grader = Null
    /\ Yield(Result(IF ~check_output(last.ret.output, LoopItem(testcases, idx).answer)
                    THEN "WA" ELSE "AC",
                    last.ret.metadata, ""))
    /\ UNCHANGED <<frame, source, grader, box_live, fs, mf, idx, requested,
                   cleanups, compiles, runs, last, fnVars, poolVars, asmVars>>

\* Lines 208-209: get_outputs takes a clean exit as AC.
ClassifyOutput ==
    /\ gen = "classify"
    /\ op = "get_outputs"
    /\ last.ret.return_code = 0
    /\ Yield(Result("AC", last.ret.metadata, ""))
    /\ UNCHANGED <<frame, source, grader, box_live, fs, mf, idx, requested,
                   cleanups, compiles, runs, last, fnVars, poolVars, asmVars>>

\* The for loop ends: the finally block, then StopIteration.
Exhaust ==
    /\ gen = "running"
    /\ idx = Len(testcases)
    /\ Cleanup
    /\ gen' = "done"
    /\ UNCHANGED <<frame, source, grader, mf, idx, requested, yielded,
                   outputs, compiles, runs, last, fnVars, poolVars, asmVars>>

\* The consumer abandons the generator at its yield (break, close(), the
\* last reference dropped): GeneratorExit is raised at the yield and the
\* finally block runs.
CloseSuspended ==
    /\ gen = "suspended"
    /\ Cleanup
    /\ gen' = "closed"
    /\ UNCHANGED <<frame, source, grader, mf, idx, requested, yielded,
                   outputs, compiles, runs, last, fnVars, poolVars, asmVars>>

\* The consumer abandons the generator before its first next().
CloseCreated ==
    /\ gen = "created"
    /\ CloseUnstarted
    /\ gen' = "closed"
    /\ UNCHANGED <<frame, source, grader, mf, idx, requested, yielded,
                   outputs, compiles, runs, last, fnVars, poolVars, asmVars>>

Next ==
    \/ Request
    \/ RunCode
    \/ ClassifyCE
    \/ ClassifyNOF
    \/ ClassifyRE
    \/ ClassifyRaise
    \/ ClassifyGraded
    \/ ClassifyChecked
    \/ ClassifyOutput
    \/ Exhaust
    \/ CloseSuspended
    \/ CloseCreated

Spec == Init /\ [][Next]_vars

\* ------------------------------------------- claims on a judging operation

\* The generator has ended: exhausted, abandoned, or left by an exception.
Ended == gen \in {"done", "closed", "raised"}

\* C1: however the consumer ends the iteration (exhausting it, abandoning it
\* after any number of results, none included, or an exception raised in
\* the loop), `isolate --cleanup` has been invoked on the box exactly once.
C1_CleanupExactlyOnce == Ended => cleanups = 1

\* C2: a generator consumed to its end has yielded one Result per testcase,
\* whatever the testcases' outcomes, and one abandoned after k steps has
\* yielded k.
C2_OneResultPerTestcase ==
    /\ gen \in {"done", "raised"} => Len(yielded) = Len(testcases)
    /\ gen = "closed" => Len(yielded) = requested

\* The statuses decide_RE_verdict knows.
KnownStatus == {"OK", "RE", "SG", "TO", "XX"}

\* The run of the testcase taken last exited non-zero and left a metadata
\* file without a status, or with an unknown one.
UnexpectedMetadata ==
    /\ last.proc /= {}
    /\ NonZero(last.ret.return_code)
    /\ \/ "status" \notin DOMAIN last.ret.metadata
       \/ last.ret.metadata["status"] \notin KnownStatus

\* C3: a non-zero exit with an absent or unknown metadata status gives the
\* testcase a Result with verdict SE, and no exception reaches the consumer.
C3_UnexpectedStatusIsSE ==
    (UnexpectedMetadata /\ gen /= "classify") =>
        /\ gen /= "raised"
        /\ Len(yielded) = last.tc
        /\ yielded[last.tc].verdict = "SE"

\* The compiler was run on the submitted source and wrote to stderr.
CompilationFailed ==
    \E i \in 1..Len(compiles) :
        /\ compiles[i].file = Join(self.box_path, "code.cpp")
        /\ compiles[i].stderr /= ""

SourceStderr ==
    compiles[CHOOSE i \in 1..Len(compiles) :
                 compiles[i].file = Join(self.box_path, "code.cpp")].stderr

\* C4: after a failed compilation every testcase taken has the Result
\* (CE, -1, -1, message), the first with the compiler's stderr and every
\* later one with the canned message, and the sandbox never ran anything.
C4_CompilationError ==
    CompilationFailed =>
        /\ runs = <<>>
        /\ Len(yielded) = IF gen = "classify" THEN idx - 1 ELSE idx
        /\ \A k \in 1..Len(yielded) :
              yielded[k] = [verdict |-> "CE", time |-> -1, memory |-> -1,
                            message |-> IF k = 1 THEN SourceStderr ELSE SeeFirst]

\* C4's case: a failed compilation, two testcases, both judged.
C4_Witness ==
    /\ CompilationFailed
    /\ gen = "done"
    /\ Len(yielded) = 2

\* C5: with file_out set, the output judged for a testcase is what that
\* testcase's own run wrote to the output file, and the verdict is NOF when
\* that run wrote none.
C5_OwnOutputFile ==
    (file_out /= None /\ last.proc /= {} /\ gen = "suspended") =>
        IF The(last.proc).wrote = {}
        THEN yielded[last.tc].verdict = "NOF"
        ELSE /\ last.ret.return_code /= NO_OUTPUT_FILE_RETURN_CODE
             /\ last.ret.output = The(The(last.proc).wrote)

\* str.lstrip(), for the reading of "single token" as str.split().
RECURSIVE lstrip(_)
lstrip(s) ==
    IF s /= <<>> /\ s[1] \in Whitespace THEN lstrip(Tail(s)) ELSE s

\* The text is the single token tok: tok between whitespace.
SingleToken(s, tok) == lstrip(rstrip(s)) = tok

\* The text is one line that reads tok once its trailing whitespace is
\* removed: tok, blanks, and at most one line break at the very end.
OneLine(s, tok) ==
    /\ Len(s) >= Len(tok)
    /\ SubSeq(s, 1, Len(tok)) = tok
    /\ \E k \in Len(tok)..Len(s) :
          /\ \A i \in (Len(tok) + 1)..k : s[i] \in {SP, TAB}
          /\ SubSeq(s, k + 1, Len(s)) \in {<<>>, <<NL>>, <<CR>>, <<CR, NL>>}

\* A judged testcase of an operation with a grader.
GradedCase == op = "judge" /\ grader /= Null /\ gen = "suspended"

SameLimits(g, u) == g.t = u.t /\ g.w = u.w /\ g.m = u.m /\ g.box_id = u.box_id

\* C7 as claimed: whenever the user's program exits with code zero and a
\* grader is present, the grader is run with stdin testcase.input, a
\* newline and the user's stdout, under the limits of the user's run; the
\* verdict is SE if the grader exits non-zero, AC or WA if its output is
\* that single token, and SE for any other output.
C7_GraderAsClaimed ==
    (GradedCase /\ last.proc /= {} /\ The(last.proc).rc = 0) =>
        /\ last.ginv /= {}
        /\ The(last.ginv).stdin =
               testcases[last.tc].input \o <<NL>> \o The(last.proc).stdout
        /\ SameLimits(The(last.ginv), The(last.inv))
        /\ yielded[last.tc].verdict =
               IF The(last.gproc).rc /= 0 THEN "SE"
               ELSE IF SingleToken(The(last.gproc).stdout, <<"A", "C">>) THEN "AC"
               ELSE IF SingleToken(The(last.gproc).stdout, <<"W", "A">>) THEN "WA"
               ELSE "SE"

\* C7 as amended: whenever run_code returns code zero for the user's program
\* (with file_out set, the output file exists) and a grader is present,
\* the grader is prepared and, unless its compilation failed (verdict SE),
\* run once with stdin testcase.input, a newline and the output run_code
\* returned (the output file's content with file_out, stdout without),
\* under the limits of the user's run; the verdict is SE if the grader exits
\* non-zero, AC or WA if its output is one line reading AC or WA once
\* trailing whitespace is removed, and SE for any other output.
C7_Grader ==
    (GradedCase /\ last.proc /= {} /\ last.ret.return_code = 0) =>
        /\ last.ret.output = IF file_out /= None
                             THEN ReadFile(fs, Join(self.box_path, file_out))
                             ELSE The(last.proc).stdout
        /\ last.gret /= {}
        /\ IF The(last.gret).return_code = COMPILATION_ERROR_RETURN_CODE
           THEN /\ last.ginv = {}
                /\ The(grader).run_args = Some(<<>>)
                /\ yielded[last.tc].verdict = "SE"
           ELSE /\ last.ginv /= {}
                /\ The(last.ginv).stdin =
                       testcases[last.tc].input \o <<NL>> \o last.ret.output
                /\ SameLimits(The(last.ginv), The(last.inv))
                /\ runs[Len(runs)] = [who |-> "grader", tc |-> last.tc,
                                      yielded |-> last.tc - 1,
                                      requested |-> last.tc]
                /\ runs[Len(runs) - 1].who = "code"
                /\ yielded[last.tc].verdict =
                       IF The(last.gproc).rc /= 0 THEN "SE"
                       ELSE IF OneLine(The(last.gproc).stdout, <<"A", "C">>)
                       THEN "AC"
                       ELSE IF OneLine(The(last.gproc).stdout, <<"W", "A">>)
                       THEN "WA"
                       ELSE "SE"

\* C7's case: the second testcase of an operation with an output file was
\* graded WA on a grader output with trailing whitespace.
C7_Witness ==
    /\ GradedCase
    /\ file_out /= None
    /\ last.tc = 2
    /\ last.ginv /= {}
    /\ The(last.gproc).stdout = <<"W", "A", NL>>
    /\ yielded[2].verdict = "WA"

\* C9: the items come in testcase order, one per request: the run of
\* testcase k (and of the grader on it) starts when k - 1 items have been
\* yielded and the consumer has asked for the k-th, it is fed testcase k's
\* input, and the k-th item (for get_outputs, the k-th output too) is the
\* one made from that run.
C9_SerialInOrder ==
    /\ \A j \in 1..Len(runs) :
          /\ runs[j].yielded = runs[j].tc - 1
          /\ runs[j].requested = runs[j].tc
          /\ \A i \in 1..(j - 1) : runs[i].tc <= runs[j].tc
    /\ Len(yielded) <= requested
    /\ Len(yielded) <= Len(testcases)
    /\ op = "get_outputs" => Len(outputs) = Len(yielded)
    /\ op = "judge" => outputs = <<>>
    /\ gen = "suspended" =>
          /\ Len(yielded) = requested
          /\ last.tc = requested
          /\ idx = requested
          /\ op = "get_outputs" => outputs[requested] = last.ret.output
    /\ last.inv /= {} =>
          IF file_in = None
          THEN The(last.inv).stdin = testcases[last.tc].input
          ELSE /\ The(last.inv).stdin = <<>>
               /\ box_live =>
                     ReadFile(fs, Join(self.box_path, file_in))
                         = testcases[last.tc].input

\* C9's case: the second output of get_outputs has been yielded.
C9_Witness ==
    /\ op = "get_outputs"
    /\ gen = "suspended"
    /\ Len(outputs) = 2
    /\ Len(runs) = 2

\* ------------------------------------------------------ the pure functions

\* The variables of a judging operation when no operation is modelled.
NoOperation ==
    /\ op = "none"
    /\ testcases = <<>>
    /\ time_limit = 0
    /\ memory_limit = 0
    /\ file_in = None
    /\ file_out = None
    /\ grader = Null
    /\ self = NewSandbox
    /\ box_live = FALSE
    /\ mf = Null
    /\ gen = "none"
    /\ idx = 0
    /\ requested = 0
    /\ yielded = <<>>
    /\ outputs = <<>>
    /\ cleanups = 0
    /\ runs = <<>>
    /\ last = NoLast

NoSource ==
    /\ source = NewSourceCode(<<>>, "PYTHON", None, FALSE)
    /\ fs = {}
    /\ compiles = <<>>

Pending == "pending"

\* The metadata dictionaries handed to decide_RE_verdict: every status of
\* the contract, an unknown one and none, with and without max-rss.
REStatuses == {"XX", "TO", "RE", "SG", "OK", "ZZ"}

REMetas ==
    {MkMeta(keys, st, <<0, 0>>, rss) :
        keys \in {{"status"}, {"status", "max-rss"}}, st \in REStatuses,
        rss \in 0..MaxKB}
    \cup {MkMeta(keys, "", <<0, 0>>, rss) :
            keys \in {{}, {"max-rss"}}, rss \in 0..MaxKB}

InitRE ==
    /\ NoOperation
    /\ PoolIdle
    /\ AsmIdle
    /\ NoSource
    /\ args \in [metadata : REMetas, memory_limit : 0..MaxKB]
    /\ out = Pending

\* decide_RE_verdict(metadata, memory_limit) is called.
ApplyRE ==
    /\ out = Pending
    /\ out' = decide_RE_verdict(args.metadata, args.memory_limit)
    /\ UNCHANGED <<judgeVars, args, poolVars, asmVars>>

SpecRE == InitRE /\ [][ApplyRE]_vars

\* C6: decide_RE_verdict gives SE for status XX, TLE for TO, for RE and SG
\* MLE if max-rss is present and more than 0.8 * memory_limit and RE
\* otherwise, AC for OK, and raises for any other status.
C6_REVerdict ==
    out /= Pending =>
        LET m == args.metadata
            st == IF "status" \in DOMAIN m THEN m["status"] ELSE "(none)"
        IN  out = CASE st = "XX" -> "SE"
                    [] st = "TO" -> "TLE"
                    [] st \in {"RE", "SG"} ->
                         IF /\ "max-rss" \in DOMAIN m
                            /\ 10 * m["max-rss"] > 8 * args.memory_limit
                         THEN "MLE"
                         ELSE "RE"
                    [] st = "OK" -> "AC"
                    [] OTHER -> Raised

\* C6's case: max-rss at exactly 80% of the memory limit is not yet MLE.
C6_Witness ==
    /\ out = "RE"
    /\ args.memory_limit = 10
    /\ "max-rss" \in DOMAIN args.metadata
    /\ args.metadata["max-rss"] = 8

\* The lists of verdicts of length n or less.
RECURSIVE VerdictLists(_)
VerdictLists(n) ==
    IF n = 0 THEN {<<>>}
    ELSE LET shorter == VerdictLists(n - 1)
         IN  shorter \cup {Append(l, v) : l \in shorter, v \in Verdict}

InitFinal ==
    /\ NoOperation
    /\ PoolIdle
    /\ AsmIdle
    /\ NoSource
    /\ args \in VerdictLists(MaxVerdicts)
    /\ out = Pending

\* decide_final_verdict(verdicts) is called.
ApplyFinal ==
    /\ out = Pending
    /\ out' = decide_final_verdict(args)
    /\ UNCHANGED <<judgeVars, args, poolVars, asmVars>>

SpecFinal == InitFinal /\ [][ApplyFinal]_vars

\* The order as the claim gives it.
PriorityOrder == <<"WJ", "SE", "CE", "NOF", "WA", "RE", "TLE", "MLE">>

Occurring(verdicts) == {i \in 1..Len(PriorityOrder) : InList(PriorityOrder[i], verdicts)}

FirstOccurring(verdicts) ==
    IF Occurring(verdicts) = {} THEN "AC"
    ELSE PriorityOrder[CHOOSE i \in Occurring(verdicts) :
                           \A j \in Occurring(verdicts) : i <= j]

\* The list with the items at i and i + 1 exchanged.
Swap(l, i) == [l EXCEPT ![i] = l[i + 1], ![i + 1] = l[i]]

\* C8: decide_final_verdict returns the first verdict of the order WJ, SE,
\* CE, NOF, WA, RE, TLE, MLE that occurs in the list and AC if none does;
\* exchanging two neighbours, repeating an item or dropping a repeated one
\* (which generate every list with the same set of verdicts) do not change
\* the result; applied to its own result it returns it; and it returns AC
\* iff the list holds no verdict other than AC.
C8_FinalVerdict ==
    out /= Pending =>
        /\ out = FirstOccurring(args)
        /\ \A i \in 1..(Len(args) - 1) : decide_final_verdict(Swap(args, i)) = out
        /\ \A i \in 1..Len(args) : decide_final_verdict(Append(args, args[i])) = out
        /\ \A i \in 1..Len(args) :
              (\E j \in 1..Len(args) : j /= i /\ args[j] = args[i]) =>
                  decide_final_verdict(SubSeq(args, 1, i - 1)
                                       \o SubSeq(args, i + 1, Len(args))) = out
        /\ decide_final_verdict(<<out>>) = out
        /\ (out = "AC") <=> (\A i \in 1..Len(args) : args[i] = "AC")

\* C8's case: WA decides over RE and AC, in a list where it comes last.
C8_Witness ==
    /\ args = <<"AC", "RE", "WA">>
    /\ out = "WA"

\* ------------------------------------------------ prepare_if_needed alone

BoxA == "/var/local/lib/isolate/0/box"
BoxB == "/var/local/lib/isolate/1/box"

\* A SourceCode as constructed, with or without a box path; out is the
\* list of the prepare_if_needed calls made on it.
InitPrepare ==
    /\ NoOperation
    /\ PoolIdle
    /\ AsmIdle
    /\ \E l \in Language : \E pip \in BOOLEAN : \E bp \in {None, BoxA} :
          source = NewSourceCode(<<"code">>, l, bp, pip)
    /\ fs = {}
    /\ compiles = <<>>
    /\ args = <<>>
    /\ out = <<>>

\* The box_path setter (lines 44-46), as run_code uses it (line 244).
SetBoxPath ==
    /\ \E bp \in {BoxA, BoxB} :
          /\ source.box_path /= bp
          /\ source' = [source EXCEPT !.box_path = bp]
    /\ UNCHANGED <<op, testcases, time_limit, memory_limit, file_in, file_out,
                   grader, self, box_live, fs, mf, gen, idx, requested,
                   yielded, outputs, cleanups, compiles, runs, last, fnVars, poolVars, asmVars>>

\* prepare_if_needed() is called.
CallPrepare ==
    /\ Len(out) < MaxCalls
    /\ \E gpp \in GppFor(source) :
          LET p == prepare_if_needed(source, fs, gpp)
          IN  /\ source' = p.sc
              /\ fs' = p.fs
              /\ compiles' = compiles \o p.compiled
              /\ out' = Append(out, [pre |-> [sc |-> source, fs |-> fs],
                                     post |-> [sc |-> p.sc, fs |-> p.fs],
                                     msg |-> p.msg,
                                     raised |-> p.raised,
                                     compiled |-> p.compiled])
    /\ UNCHANGED <<op, testcases, time_limit, memory_limit, file_in, file_out,
                   grader, self, box_live, mf, gen, idx, requested, yielded,
                   outputs, cleanups, runs, last, args, poolVars, asmVars>>

NextPrepare == SetBoxPath \/ CallPrepare

SpecPrepare == InitPrepare /\ [][NextPrepare]_vars

\* Call k changed nothing: the object and the files are as before it, and
\* the compiler did not run.
NoOpCall(k) ==
    /\ out[k].post = out[k].pre
    /\ out[k].compiled = <<>>

C11_TimeLimitInSeconds ==
    last.inv /= {} =>
        /\ The(last.inv).t * 1000 = time_limit
        /\ The(last.inv).w = The(last.inv).t + 1

\* ------------------------------------------------------------ check_output

\* The characters of the texts compared: a letter, a blank and the line
\* breaks.
Alphabet == {"a", SP, NL, CR}

\* The texts of at most n characters.
RECURSIVE Strings(_)
Strings(n) ==
    IF n = 0 THEN {<<>>}
    ELSE LET shorter == Strings(n - 1)
         IN  shorter \cup {Append(s, c) : s \in shorter, c \in Alphabet}

InitCheck ==
    /\ NoOperation
    /\ PoolIdle
    /\ AsmIdle
    /\ NoSource
    /\ args \in Strings(MaxLen) \X Strings(MaxLen)
    /\ out = <<>>

\* check_output(output, answer) is called.
ApplyCheck ==
    /\ out = <<>>
    /\ out' = <<check_output(args[1], args[2])>>
    /\ UNCHANGED <<judgeVars, args, poolVars, asmVars>>

SpecCheck == InitCheck /\ [][ApplyCheck]_vars

\* x with its i-th character removed.
Without(x, i) == SubSeq(x, 1, i - 1) \o SubSeq(x, i + 1, Len(x))

\* y is x less one blank that stands before a character that is no
\* whitespace: a difference in leading or interior whitespace.
InnerBlankDropped(x, y) ==
    \E i \in 1..(Len(x) - 1) :
        /\ x[i] \in {SP, TAB}
        /\ x[i + 1] \notin Whitespace
        /\ y = Without(x, i)

\* C12: check_output(output, answer) is true iff both texts split into the
\* same number of lines and corresponding lines are equal once their
\* trailing whitespace is removed; it is true of a text and itself,
\* symmetric, true of a text whose last line is not empty and the same text
\* with one more newline, and false of two texts that differ in a leading
\* or interior blank.
C12_CheckOutput ==
    out /= <<>> =>
        LET x == args[1]
            y == args[2]
            lx == splitlines(x)
            ly == splitlines(y)
        IN  /\ out[1] <=> /\ Len(lx) = Len(ly)
                          /\ \A i \in 1..Len(lx) : rstrip(lx[i]) = rstrip(ly[i])
            /\ x = y => out[1]
            /\ out[1] = check_output(y, x)
            /\ (x /= <<>> /\ x[Len(x)] \notin LineBreaks /\ y = x \o <<NL>>)
                   => out[1]
            /\ (InnerBlankDropped(x, y) \/ InnerBlankDropped(y, x)) => ~out[1]

\* C12's case: an output with a trailing blank and newline is accepted
\* for the bare answer.
C12_Witness ==
    /\ args = <<<<"a", SP, NL>>, <<"a">>>>
    /\ out = <<TRUE>>

\* ------------------------------------------------------- the pool of boxes

\* `isolate --box-id id --init`, atomic: it fails on a box that is
\* initialised already, and initialises a free one and prints its root.
IsolateInit(id, held) ==
    IF id \in held
    THEN [returncode |-> 2, stdout |-> <<>>, boxes |-> held]
    ELSE [returncode |-> 0,
          stdout |-> <<"/var/local/lib/isolate", id, NL>>,
          boxes |-> held \cup {id}]

\* `isolate --box-id id --cleanup`, atomic: the box is free afterwards,
\* whoever initialised it.
IsolateCleanup(id, held) == held \ {id}

\* Line 69: proc.stdout.decode('utf-8')[:-1] + '/box'
BoxPathOf(stdout) == SubSeq(stdout, 1, Len(stdout) - 1) \o <<"/box">>

\* Line 242: the metadata file of a sandbox.
MetadataPathOf(box_id) == Join(METADATA_FOLDER, box_id)

\* A mutant of create's loop: every second id is tried.
NextId_Skip(id_) == id_ + 2

\* `for id_ in range(0, MAX_BOX)`: the id after id_.
NextId(id_) == id_ + 1

\* An IsolateSandbox whose __init__ has reached create(): no attribute is
\* set yet. inits is the log of its --init invocations, live whether it
\* has created a box that it has not cleaned up since.
SandboxObjects == 1..NumSandboxes

FreshSandbox ==
    [pc |-> "create", id_ |-> 0, box_id |-> Null, box_path |-> Null,
     inits |-> <<>>, ops |-> 0, live |-> FALSE, ran |-> "no"]

\* No cleanup_all is running.
NoSweep == [pc |-> "idle", ids |-> {}]

InitPool ==
    /\ NoOperation
    /\ NoSource
    /\ FnIdle
    /\ AsmIdle
    /\ boxes \in SUBSET (0..(MAX_BOX - 1))
    /\ sandboxes = [o \in SandboxObjects |-> FreshSandbox]
    /\ sweep = NoSweep

\* One iteration of create()'s loop on object o: --init of the next id,
\* then `continue` (and the raise when the range is used up) or the
\* assignment of box_path and box_id and the return.
create(o) ==
    LET sb == sandboxes[o]
        proc == IsolateInit(sb.id_, boxes)
        log == Append(sb.inits, [id |-> sb.id_, returncode |-> proc.returncode])
    IN  /\ sb.pc = "create"
        /\ boxes' = proc.boxes
        /\ sandboxes' =
             [sandboxes EXCEPT ![o] =
                IF proc.returncode /= 0
                THEN [sb EXCEPT !.inits = log,
                                !.id_ = NextId(sb.id_),
                                !.pc = IF NextId(sb.id_) >= MAX_BOX
                                       THEN "All boxes full" ELSE "create"]
                ELSE [sb EXCEPT !.inits = log,
                                !.box_path = Some(BoxPathOf(proc.stdout)),
                                !.box_id = Some(sb.id_),
                                !.live = TRUE,
                                !.pc = "created"]]
        /\ UNCHANGED <<sweep, judgeVars, fnVars, asmVars>>

\* judge or get_outputs is called on object o and its generator started:
\* the object offers both for as long as it exists.
StartOperation(o) ==
    /\ sandboxes[o].pc = "created"
    /\ sandboxes[o].ops < MaxOps
    /\ sandboxes' = [sandboxes EXCEPT ![o].pc = "judging", ![o].ops = @ + 1]
    /\ UNCHANGED <<boxes, sweep, judgeVars, fnVars, asmVars>>

\* run_code of the operation on object o: `isolate --box-id <box_id> --run`
\* (and before it the files written to box_path) with the box_id the
\* object holds. ran keeps whether the object had a box of its own then.
RunInBox(o) ==
    /\ sandboxes[o].pc = "judging"
    /\ sandboxes' = [sandboxes EXCEPT ![o].ran =
                        IF sandboxes[o].live THEN "live" ELSE "stale"]
    /\ UNCHANGED <<boxes, sweep, judgeVars, fnVars, asmVars>>

\* The operation's finally: IsolateSandbox.cleanup on the box_id the object
\* holds.
cleanup(o) ==
    /\ sandboxes[o].pc = "judging"
    /\ boxes' = IsolateCleanup(The(sandboxes[o].box_id), boxes)
    /\ sandboxes' = [sandboxes EXCEPT ![o].pc = "created", ![o].live = FALSE]
    /\ UNCHANGED <<sweep, judgeVars, fnVars, asmVars>>

\* IsolateSandbox.cleanup_all, called by any process at any time: line 41,
\* os.listdir of the sandbox root, one directory per initialised box.
cleanup_all ==
    /\ sweep.pc = "idle"
    /\ boxes /= {}
    /\ sweep' = [pc |-> "sweeping", ids |-> boxes]
    /\ UNCHANGED <<boxes, sandboxes, judgeVars, fnVars, asmVars>>

\* Lines 41-44: one iteration of its loop, `isolate --box-id <id>
\* --cleanup` of a listed id, in the order listdir gave; after the last one
\* cleanup_all returns.
SweepBox ==
    /\ sweep.pc = "sweeping"
    /\ \E id \in sweep.ids :
          /\ boxes' = IsolateCleanup(id, boxes)
          /\ sweep' = IF sweep.ids = {id} THEN NoSweep
                      ELSE [sweep EXCEPT !.ids = @ \ {id}]
    /\ UNCHANGED <<sandboxes, judgeVars, fnVars, asmVars>>

NextPool ==
    \E o \in SandboxObjects : create(o) \/ StartOperation(o) \/ cleanup(o)

SpecPool == InitPool /\ [][NextPool]_vars

\* create() has ended on a sandbox, with a box or with the exception.
Created(sb) == sb.pc \in {"created", "judging"}

\* C13: create() tries the ids in ascending order from 0, each once; it
\* ends owning the id of the first --init that succeeded (the smallest id
\* whose --init succeeded), with no higher id tried; if --init fails for
\* all MAX_BOX ids it raises 'All boxes full' and box_id and box_path are
\* not set.
C13_FirstFit ==
    \A o \in SandboxObjects :
        LET sb == sandboxes[o]
            n == Len(sb.inits)
        IN  /\ \A k \in 1..n : sb.inits[k].id = k - 1
            /\ n <= MAX_BOX
            /\ sb.pc = "create" =>
                  /\ \A k \in 1..n : sb.inits[k].returncode /= 0
                  /\ n < MAX_BOX
                  /\ sb.box_id = Null /\ sb.box_path = Null
            /\ Created(sb) =>
                  /\ n >= 1
                  /\ sb.inits[n].returncode = 0
                  /\ \A k \in 1..(n - 1) : sb.inits[k].returncode /= 0
                  /\ sb.box_id = Some(n - 1)
                  /\ sb.box_path = Some(<<"/var/local/lib/isolate", n - 1, "/box">>)
            /\ sb.pc = "All boxes full" =>
                  /\ n = MAX_BOX
                  /\ \A k \in 1..n : sb.inits[k].returncode /= 0
                  /\ sb.box_id = Null /\ sb.box_path = Null

\* C13's case: one sandbox owns the last id after the lower one failed,
\* and another found every box full.
C13_Witness ==
    \E a, b \in SandboxObjects :
        /\ sandboxes[a].pc = "created"
        /\ sandboxes[a].box_id = Some(MAX_BOX - 1)
        /\ Len(sandboxes[a].inits) = MAX_BOX
        /\ sandboxes[b].pc = "All boxes full"

\* C14: under any interleaving of the create, judge / get_outputs and
\* cleanup steps of several sandboxes, with --init and --cleanup atomic, no
\* two sandboxes that are live at the same time hold the same box_id (and
\* so the same box directory and metadata file).
C14_DisjointBoxes ==
    \A a, b \in SandboxObjects :
        (a /= b /\ sandboxes[a].live /\ sandboxes[b].live) =>
            /\ sandboxes[a].box_id /= sandboxes[b].box_id
            /\ sandboxes[a].box_path /= sandboxes[b].box_path
            /\ MetadataPathOf(The(sandboxes[a].box_id))
                   /= MetadataPathOf(The(sandboxes[b].box_id))

\* -------------------------------------------------------- the error digest

\* The stderr texts digested: a traceback marker, another character and
\* newlines, at most MaxErr items.
RECURSIVE StderrTexts(_)
StderrTexts(n) ==
    IF n = 0 THEN {<<>>}
    ELSE LET shorter == StderrTexts(n - 1)
         IN  shorter \cup {Append(s, c) : s \in shorter,
                                          c \in {TracebackMarker, "x", NL}}

InitDigest ==
    /\ NoOperation
    /\ PoolIdle
    /\ AsmIdle
    /\ NoSource
    /\ args \in StderrTexts(MaxErr)
    /\ out = <<>>

\* SourceCode.run of a PYTHON source ends on a process with stderr args.
ApplyDigest ==
    /\ out = <<>>
    /\ out' = <<ErrorOf(source, [stderr |-> args])>>
    /\ UNCHANGED <<judgeVars, args, poolVars, asmVars>>

SpecDigest == InitDigest /\ [][ApplyDigest]_vars

\* The positions of the traceback markers in a text.
Tracebacks(s) == {i \in 1..Len(s) : s[i] = TracebackMarker}

\* C15: for a PYTHON source the error digest is the part of stderr (its
\* last two lines dropped) that begins at the last occurrence of the
\* traceback marker, and the whole remainder when there is no marker.
C15_LastTraceback ==
    out /= <<>> =>
        LET rest == ErrorRaw(args)
        IN  IF Tracebacks(rest) = {}
            THEN out[1] = rest
            ELSE /\ out[1] /= <<>>
                 /\ out[1][1] = TracebackMarker
                 /\ Tracebacks(Tail(out[1])) = {}
                 /\ \E k \in Tracebacks(rest) :
                        out[1] = SubSeq(rest, k, Len(rest))

\* ------------------------------------------------- the AQA interpreter

\* aqaasm.NUM_REGISTERS and NUM_MEM
NUM_REGISTERS == 13

NUM_MEM == 1000

\* A line of a program is a sequence of items: an opcode or a label name
\* is one item, every other item is one character. A Python value is
\* Some(n) for the integer n and Null for None.

\* str.strip()
RECURSIVE strip(_)
strip(s) ==
    IF s /= <<>> /\ Head(s) \in Whitespace THEN strip(Tail(s)) ELSE rstrip(s)

Digits == {"0", "1", "2", "3", "4", "5", "6", "7", "8", "9"}

DigitValue(d) == CHOOSE n \in 0..9 : ToString(n) = d

RECURSIVE Decimal(_)
Decimal(ds) ==
    IF ds = <<>> THEN 0
    ELSE 10 * Decimal(SubSeq(ds, 1, Len(ds) - 1)) + DigitValue(ds[Len(ds)])

\* int() of a text without surrounding whitespace: a sign may precede the
\* digits; Null when int() raises ValueError.
IntOfDigits(sign, ds) ==
    IF ds = <<>> \/ \E i \in 1..Len(ds) : ds[i] \notin Digits
    THEN Null
    ELSE Some(sign * Decimal(ds))

IntOfStripped(t) ==
    IF t /= <<>> /\ Head(t) = "-" THEN IntOfDigits(-1, Tail(t))
    ELSE IF t /= <<>> /\ Head(t) = "+" THEN IntOfDigits(1, Tail(t))
    ELSE IntOfDigits(1, t)

\* int(text): whitespace around the number is ignored.
int(text) == IntOfStripped(strip(text))

\* Python's x & y, x | y and x ^ y on integers of any sign.
RECURSIVE BitAnd(_, _)
BitAnd(x, y) ==
    IF x = 0 \/ y = 0 THEN 0
    ELSE IF x = -1 THEN y
    ELSE IF y = -1 THEN x
    ELSE 2 * BitAnd(x \div 2, y \div 2) + (x % 2) * (y % 2)

RECURSIVE BitOr(_, _)
BitOr(x, y) ==
    IF x = 0 THEN y
    ELSE IF y = 0 THEN x
    ELSE IF x = -1 \/ y = -1 THEN -1
    ELSE 2 * BitOr(x \div 2, y \div 2)
         + (IF x % 2 = 1 \/ y % 2 = 1 THEN 1 ELSE 0)

RECURSIVE BitXor(_, _)
BitXor(x, y) ==
    IF x = 0 THEN y
    ELSE IF y = 0 THEN x
    ELSE IF x = -1 THEN -y - 1
    ELSE IF y = -1 THEN -x - 1
    ELSE 2 * BitXor(x \div 2, y \div 2) + (IF x % 2 /= y % 2 THEN 1 ELSE 0)

\* Python's ~x
BitNot(x) == -x - 1

RECURSIVE Pow2(_)
Pow2(n) == IF n = 0 THEN 1 ELSE 2 * Pow2(n - 1)

\* What a call ends with: a value, or an exception.
Returns(val) == [raised |-> FALSE, val |-> val]

Raises == [raised |-> TRUE, val |-> Null]

\* An instruction ends with the interpreter it leaves, normally or raising.
Done(ai) == [raised |-> FALSE, ai |-> ai]

Failed(ai) == [raised |-> TRUE, ai |-> ai]

\* AQAAssemblyInterpreter.__init__; memory lists the cells that hold
\* something else than 0.
NewInterpreter ==
    [registers |-> [r \in 0..(NUM_REGISTERS - 1) |-> Some(0)],
     memory |-> <<>>,
     cmp_left |-> Null,
     cmp_right |-> Null,
     cur_line_num |-> 0]

\* The checks of _get_memory_number and _get_register_number on what
\* int() gave: only a number that is too large is refused.
NumberBelow(num, limit) ==
    IF num = Null THEN Raises
    ELSE IF The(num) >= limit THEN Raises
    ELSE Returns(The(num))

_get_memory_number(mem) == NumberBelow(int(mem), NUM_MEM)

\* reg[1:] is what follows the first character, whatever that is.
_get_register_number(reg) ==
    NumberBelow(int(IF reg = <<>> THEN <<>> ELSE Tail(reg)), NUM_REGISTERS)

\* list[number] of a Python list of the given size: the position the
\* number names, a negative one counted from the end; Null when the number
\* was refused or the list raises IndexError.
ListIndex(number, size) ==
    IF number.raised THEN Null
    ELSE IF number.val \in 0..(size - 1) THEN Some(number.val)
    ELSE IF number.val \in (-size)..(-1) THEN Some(size + number.val)
    ELSE Null

MemoryAt(memory, i) == IF i \in DOMAIN memory THEN memory[i] ELSE Some(0)

MemoryWith(memory, i, val) ==
    [j \in (DOMAIN memory \cup {i}) \ (IF val = Some(0) THEN {i} ELSE {}) |->
        IF j = i THEN val ELSE memory[j]]

\* self.memory[mem_num] = val and self.registers[reg_num] = val
StoreMemory(ai, at, val) ==
    IF at = Null THEN Failed(ai)
    ELSE Done([ai EXCEPT !.memory = MemoryWith(ai.memory, The(at), val)])

StoreRegister(ai, at, val) ==
    IF at = Null THEN Failed(ai)
    ELSE Done([ai EXCEPT !.registers[The(at)] = val])

\* return self.memory[mem_num] and return self.registers[reg_num]
LoadMemory(ai, at) ==
    IF at = Null THEN Raises ELSE Returns(MemoryAt(ai.memory, The(at)))

LoadRegister(ai, at) ==
    IF at = Null THEN Raises ELSE Returns(ai.registers[The(at)])

set_memory(ai, mem, val) ==
    StoreMemory(ai, ListIndex(_get_memory_number(mem), NUM_MEM), val)

get_memory(ai, mem) ==
    LoadMemory(ai, ListIndex(_get_memory_number(mem), NUM_MEM))

\* A set_register that also leaves the value in the comparison latch.
set_register_AndLatch(ai, reg, val) ==
    StoreRegister([ai EXCEPT !.cmp_left = val],
                  ListIndex(_get_register_number(reg), NUM_REGISTERS), val)

set_register(ai, reg, val) ==
    StoreRegister(ai, ListIndex(_get_register_number(reg), NUM_REGISTERS), val)

get_register(ai, reg) ==
    LoadRegister(ai, ListIndex(_get_register_number(reg), NUM_REGISTERS))

\* Lines 55-59: the immediate, when int() does not raise.
Immediate(res) == IF res = Null THEN Raises ELSE Returns(res)

\* get_operand: operand[0] of an empty operand raises IndexError, and an
\* operand that begins with neither 'R' nor '#' falls off the end of the
\* function, which returns None.
get_operand(ai, operand) ==
    IF operand = <<>> THEN Raises
    ELSE IF Head(operand) = "R" THEN get_register(ai, operand)
    ELSE IF Head(operand) = "#" THEN Immediate(int(Tail(operand)))
    ELSE Returns(Null)

\* The two operands of an arithmetic instruction, register first; None as
\* either one makes the operator raise TypeError.
BothIntegers(a, b) ==
    IF a.raised \/ b.raised THEN Raises
    ELSE IF a.val = Null \/ b.val = Null THEN Raises
    ELSE Returns(<<The(a.val), The(b.val)>>)

Operands(ai, reg2, operand) ==
    BothIntegers(get_register(ai, reg2), get_operand(ai, operand))

\* The integer an instruction computes of its operands o; a negative shift
\* count raises ValueError.
Computed(instruction, o) ==
    IF o.raised THEN Raises
    ELSE CASE instruction = "ADD" -> Returns(Some((o.val[1] + o.val[2]) % 256))
           [] instruction = "SUB" ->
                 Returns(Some((o.val[1] - o.val[2] + 256) % 256))
           [] instruction = "AND" -> Returns(Some(BitAnd(o.val[1], o.val[2])))
           [] instruction = "ORR" -> Returns(Some(BitOr(o.val[1], o.val[2])))
           [] instruction = "EOR" -> Returns(Some(BitXor(o.val[1], o.val[2])))
           [] instruction = "LSL" ->
                 IF o.val[2] < 0 THEN Raises
                 ELSE Returns(Some((o.val[1] * Pow2(o.val[2])) % 256))
           [] OTHER ->
                 IF o.val[2] < 0 THEN Raises
                 ELSE Returns(Some(o.val[1] \div Pow2(o.val[2])))

\* (~operand) % 256; ~None raises TypeError.
Complement(v) ==
    IF v.raised \/ v.val = Null THEN Raises
    ELSE Returns(Some(BitNot(The(v.val)) % 256))

\* set_register(reg, v) and set_memory(mem, v) of a value whose evaluation
\* may have raised.
AssignRegister(ai, reg, v) ==
    IF v.raised THEN Failed(ai) ELSE set_register(ai, reg, v.val)

AssignMemory(ai, mem, v) ==
    IF v.raised THEN Failed(ai) ELSE set_memory(ai, mem, v.val)

_ldr(ai, reg, mem) == AssignRegister(ai, reg, get_memory(ai, mem))

_str(ai, reg, mem) == AssignMemory(ai, mem, get_register(ai, reg))

_add(ai, reg, reg2, operand) ==
    AssignRegister(ai, reg, Computed("ADD", Operands(ai, reg2, operand)))

_sub(ai, reg, reg2, operand) ==
    AssignRegister(ai, reg, Computed("SUB", Operands(ai, reg2, operand)))

_mov(ai, reg, operand) == AssignRegister(ai, reg, get_operand(ai, operand))

\* _cmp assigns cmp_left before it evaluates the operand.
CmpRight(ai, r) ==
    IF r.raised THEN Failed(ai) ELSE Done([ai EXCEPT !.cmp_right = r.val])

CmpLeft(ai, l, operand) ==
    IF l.raised THEN Failed(ai)
    ELSE CmpRight([ai EXCEPT !.cmp_left = l.val], get_operand(ai, operand))

_cmp(ai, reg, operand) == CmpLeft(ai, get_register(ai, reg), operand)

\* The relations without their check of the latch: an unset latch compares
\* as unequal.
Relation_Unchecked(ai, instruction) ==
    IF ai.cmp_left = Null \/ ai.cmp_right = Null
    THEN Returns(instruction = "BNE")
    ELSE CASE instruction = "BEQ" -> Returns(The(ai.cmp_left) = The(ai.cmp_right))
           [] instruction = "BNE" -> Returns(The(ai.cmp_left) /= The(ai.cmp_right))
           [] instruction = "BGT" -> Returns(The(ai.cmp_left) > The(ai.cmp_right))
           [] OTHER -> Returns(The(ai.cmp_left) < The(ai.cmp_right))

\* _eq, _ne, _gt and _lt, by the branch that asks: they raise when either
\* half of the latch is None.
Relation(ai, instruction) ==
    IF ai.cmp_left = Null \/ ai.cmp_right = Null THEN Raises
    ELSE CASE instruction = "BEQ" -> Returns(The(ai.cmp_left) = The(ai.cmp_right))
           [] instruction = "BNE" -> Returns(The(ai.cmp_left) /= The(ai.cmp_right))
           [] instruction = "BGT" -> Returns(The(ai.cmp_left) > The(ai.cmp_right))
           [] OTHER -> Returns(The(ai.cmp_left) < The(ai.cmp_right))

_and(ai, reg, reg2, operand) ==
    AssignRegister(ai, reg, Computed("AND", Operands(ai, reg2, operand)))

_orr(ai, reg, reg2, operand) ==
    AssignRegister(ai, reg, Computed("ORR", Operands(ai, reg2, operand)))

_eor(ai, reg, reg2, operand) ==
    AssignRegister(ai, reg, Computed("EOR", Operands(ai, reg2, operand)))

_mvn(ai, reg, operand) ==
    AssignRegister(ai, reg, Complement(get_operand(ai, operand)))

_lsl(ai, reg, reg2, operand) ==
    AssignRegister(ai, reg, Computed("LSL", Operands(ai, reg2, operand)))

_lsr(ai, reg, reg2, operand) ==
    AssignRegister(ai, reg, Computed("LSR", Operands(ai, reg2, operand)))

\* The keys of run_code's instructions dictionary.
instructions ==
    {"LDR", "STR", "ADD", "SUB", "MOV", "CMP", "AND", "ORR", "EOR", "MVN",
     "LSL", "LSR", "B", "BEQ", "BNE", "BGT", "BLT", "HALT"}

\* instruction[0] == 'B', of an instruction of the dictionary.
BranchInstructions == {"B", "BEQ", "BNE", "BGT", "BLT"}

\* func(*args): a call with the wrong number of arguments raises
\* TypeError.
Call(ai, instruction, a) ==
    IF instruction \in {"LDR", "STR", "MOV", "CMP", "MVN"}
    THEN IF Len(a) /= 2 THEN Failed(ai)
         ELSE CASE instruction = "LDR" -> _ldr(ai, a[1], a[2])
                [] instruction = "STR" -> _str(ai, a[1], a[2])
                [] instruction = "MOV" -> _mov(ai, a[1], a[2])
                [] instruction = "CMP" -> _cmp(ai, a[1], a[2])
                [] OTHER -> _mvn(ai, a[1], a[2])
    ELSE IF Len(a) /= 3 THEN Failed(ai)
         ELSE CASE instruction = "ADD" -> _add(ai, a[1], a[2], a[3])
                [] instruction = "SUB" -> _sub(ai, a[1], a[2], a[3])
                [] instruction = "AND" -> _and(ai, a[1], a[2], a[3])
                [] instruction = "ORR" -> _orr(ai, a[1], a[2], a[3])
                [] instruction = "EOR" -> _eor(ai, a[1], a[2], a[3])
                [] instruction = "LSL" -> _lsl(ai, a[1], a[2], a[3])
                [] OTHER -> _lsr(ai, a[1], a[2], a[3])

\* str.split(sep): the fields between the separators.
RECURSIVE SplitAt(_, _, _, _)
SplitAt(s, sep, cur, acc) ==
    IF s = <<>> THEN Append(acc, cur)
    ELSE IF Head(s) = sep
         THEN SplitAt(Tail(s), sep, <<>>, Append(acc, cur))
         ELSE SplitAt(Tail(s), sep, Append(cur, Head(s)), acc)

\* cur_line.split(' ', maxsplit=1): the instruction, and args_raw (Null
\* when the line holds no blank).
InstructionOf(cur_line) ==
    LET at == find(cur_line, SP)
    IN  IF at = 0 THEN cur_line ELSE SubSeq(cur_line, 1, at - 1)

ArgsRawOf(cur_line) ==
    LET at == find(cur_line, SP)
    IN  IF at = 0 THEN Null ELSE Some(SubSeq(cur_line, at + 1, Len(cur_line)))

\* [arg.strip() for arg in args_raw.split(',')]
ArgsOf(args_raw) ==
    LET fields == SplitAt(args_raw, ",", <<>>, <<>>)
    IN  [i \in 1..Len(fields) |-> strip(fields[i])]

\* line.endswith(':') and ':' in line
IsLabel(line) == line /= <<>> /\ line[Len(line)] = ":"

HasColon(line) == \E i \in 1..Len(line) : line[i] = ":"

\* The branches dictionary: branches[line[:-1]] = line_num + 1 for every
\* line that ends with ':', a later line replacing an earlier one. Line
\* numbers count from 0.
Defines(lines, label) ==
    {k \in 1..Len(lines) :
        IsLabel(lines[k]) /\ SubSeq(lines[k], 1, Len(lines[k]) - 1) = label}

InBranches(lines, label) == Defines(lines, label) /= {}

BranchTarget(lines, label) ==
    CHOOSE k \in Defines(lines, label) : \A j \in Defines(lines, label) : j <= k

\* How a run stands: running, returned from run_code, or ended by an
\* exception raised at a line (counted from 1, as the messages count).
Running == [how |-> "running", msg |-> "", line |-> 0]

Returned == [how |-> "return", msg |-> "", line |-> 0]

Exception(msg, cur_line_num) == [how |-> "raise", msg |-> msg, line |-> cur_line_num + 1]

\* The lines programs are made of.
Reg(d) == <<"R">> \o d

Imm(d) == <<"#">> \o d

Ins2(instruction, x, y) == <<instruction, SP>> \o x \o <<",", SP>> \o y

Ins3(instruction, x, y, z) == Ins2(instruction, x, y) \o <<",", SP>> \o z

ProgramLines ==
    {<<>>, <<"HALT">>, <<SP, "HALT", SP>>, <<"FOO">>, <<"MOV">>,
     <<"loop", ":">>, <<"B", SP, "loop">>, <<"BNE", SP, "loop">>,
     <<"B", SP, "nowhere">>, <<"BEQ", SP, "nowhere">>, <<":", "x">>,
     Ins2("MOV", Reg(<<"0">>), Imm(<<"3", "0", "0">>)),
     Ins2("MOV", Reg(<<"1">>), Imm(<<"7">>)),
     Ins2("MOV", Reg(<<"0">>), <<"5">>),
     Ins2("MOV", Reg(<<"1", "3">>), Imm(<<"1">>)),
     Ins2("MOV", Reg(<<"-", "1">>), Imm(<<"9">>)),
     Ins2("LDR", Reg(<<"2">>), <<"1", "0", "0">>),
     Ins2("STR", Reg(<<"1">>), <<"1", "0", "1">>),
     Ins2("STR", Reg(<<"1">>), <<"-", "1">>),
     Ins2("STR", Reg(<<"1">>), <<"1", "0", "0", "0">>),
     Ins2("CMP", Reg(<<"1">>), Imm(<<"7">>)),
     Ins2("CMP", Reg(<<"1">>), <<"7">>),
     Ins2("CMP", Reg(<<"1">>), Imm(<<"x">>)),
     Ins2("MVN", Reg(<<"1">>), Imm(<<"0">>)),
     Ins3("ADD", Reg(<<"1">>), Reg(<<"0">>), Imm(<<"2", "5", "5">>)),
     Ins3("SUB", Reg(<<"1">>), Reg(<<"1">>), Imm(<<"1">>)),
     Ins3("AND", Reg(<<"1">>), Reg(<<"0">>), Imm(<<"-", "1">>)),
     Ins3("ORR", Reg(<<"1">>), Reg(<<"1">>), Imm(<<"2", "5", "6">>)),
     Ins3("EOR", Reg(<<"1">>), Reg(<<"1">>), Imm(<<"5", "1", "1">>)),
     Ins3("LSL", Reg(<<"1">>), Reg(<<"1">>), Imm(<<"1">>)),
     Ins3("LSR", Reg(<<"1">>), Reg(<<"0">>), Imm(<<"0">>))}

RECURSIVE Programs(_)
Programs(n) ==
    IF n = 0 THEN {<<>>}
    ELSE LET shorter == Programs(n - 1)
         IN  shorter \cup {Append(c, l) : c \in shorter, l \in ProgramLines}

\* The integers the CLI reads from stdin.
Inputs == {5, 300}

\* __main__: input_ = int(input()), a new interpreter,
\* set_memory('100', input_), and run_code up to its loop: the lines are
\* stripped and cur_line_num is 0. args keeps the input and the code, out
\* what the last step of the loop did.
InitAsm ==
    /\ NoOperation
    /\ NoSource
    /\ PoolIdle
    /\ \E code \in Programs(MaxLines), input_ \in Inputs :
          /\ args = [input_ |-> input_, code |-> code]
          /\ code_lines = [i \in 1..Len(code) |-> strip(code[i])]
          /\ aqaai = set_memory(NewInterpreter, <<"1", "0", "0">>, Some(input_)).ai
    /\ ended = Running
    /\ out = [kind |-> "none", at |-> 0, line |-> <<>>, before |-> aqaai,
              raised |-> FALSE, cmp_called |-> FALSE]

\* The line the loop is at, its instruction and its raw arguments.
AtLine == aqaai.cur_line_num < Len(code_lines)

CurLine == code_lines[aqaai.cur_line_num + 1]

Skipped(line) == line = <<>> \/ HasColon(line)

Known(line) ==
    Len(InstructionOf(line)) = 1 /\ InstructionOf(line)[1] \in instructions

Opcode(line) == InstructionOf(line)[1]

\* What a step leaves in out: what it was, the line it was at, the
\* interpreter before it, whether it raised, and whether _cmp has been
\* called so far in the run.
StepOf(kind, raised) ==
    [kind |-> kind, at |-> aqaai.cur_line_num, line |-> CurLine,
     before |-> aqaai, raised |-> raised,
     cmp_called |-> out.cmp_called
                    \/ (kind = "execute" /\ Opcode(CurLine) = "CMP"
                                         /\ ArgsRawOf(CurLine) /= Null)]

Advance(ai) == [ai EXCEPT !.cur_line_num = @ + 1]

\* A loop that returns when it is past the last line.
RunOff_Return ==
    /\ ended = Running
    /\ ~AtLine
    /\ ended' = Returned
    /\ out' = [kind |-> "off", at |-> aqaai.cur_line_num, line |-> <<>>,
               before |-> aqaai, raised |-> FALSE,
               cmp_called |-> out.cmp_called]
    /\ UNCHANGED <<judgeVars, args, poolVars, aqaai, code_lines>>

\* code_lines[self.cur_line_num] past the last line: IndexError.
RunOff ==
    /\ ended = Running
    /\ ~AtLine
    /\ ended' = Exception("IndexError", aqaai.cur_line_num)
    /\ out' = [kind |-> "off", at |-> aqaai.cur_line_num, line |-> <<>>,
               before |-> aqaai, raised |-> TRUE,
               cmp_called |-> out.cmp_called]
    /\ UNCHANGED <<judgeVars, args, poolVars, aqaai, code_lines>>

\* Lines 162-164: an empty line, or one with a ':' in it.
SkipLine ==
    /\ ended = Running
    /\ AtLine
    /\ Skipped(CurLine)
    /\ aqaai' = Advance(aqaai)
    /\ out' = StepOf("skip", FALSE)
    /\ UNCHANGED <<judgeVars, args, poolVars, code_lines, ended>>

\* Lines 170-172
UnknownInstruction ==
    /\ ended = Running
    /\ AtLine
    /\ ~Skipped(CurLine)
    /\ ~Known(CurLine)
    /\ ended' = Exception("Unknown instruction at line", aqaai.cur_line_num)
    /\ out' = StepOf("unknown", TRUE)
    /\ UNCHANGED <<judgeVars, args, poolVars, aqaai, code_lines>>

\* Lines 174-175
Halt ==
    /\ ended = Running
    /\ AtLine
    /\ ~Skipped(CurLine)
    /\ Known(CurLine)
    /\ Opcode(CurLine) = "HALT"
    /\ ended' = Returned
    /\ out' = StepOf("halt", FALSE)
    /\ UNCHANGED <<judgeVars, args, poolVars, aqaai, code_lines>>

\* Lines 176-186 and 197: a branch. The relation is asked first (and
\* raises without a CMP before), the label is looked up only when the
\* branch is taken, and a branch not taken goes on to the next line.
Branch ==
    /\ ended = Running
    /\ AtLine
    /\ ~Skipped(CurLine)
    /\ Known(CurLine)
    /\ Opcode(CurLine) \in BranchInstructions
    /\ LET instruction == Opcode(CurLine)
           args_raw == ArgsRawOf(CurLine)
           rel == IF instruction = "B" THEN Returns(TRUE)
                  ELSE Relation(aqaai, instruction)
       IN  IF rel.raised
           THEN /\ ended' = Exception("CMP not called before " \o instruction
                                          \o " at line", aqaai.cur_line_num)
                /\ out' = StepOf("branch", TRUE)
                /\ UNCHANGED aqaai
           ELSE IF ~rel.val
           THEN /\ aqaai' = Advance(aqaai)
                /\ out' = StepOf("branch", FALSE)
                /\ UNCHANGED ended
           ELSE IF args_raw = Null \/ ~InBranches(code_lines, The(args_raw))
           THEN /\ ended' = Exception("Invalid branch at line", aqaai.cur_line_num)
                /\ out' = StepOf("branch", TRUE)
                /\ UNCHANGED aqaai
           ELSE /\ aqaai' = [aqaai EXCEPT !.cur_line_num =
                                BranchTarget(code_lines, The(args_raw))]
                /\ out' = StepOf("branch", FALSE)
                /\ UNCHANGED ended
    /\ UNCHANGED <<judgeVars, args, poolVars, code_lines>>

\* Lines 191-197: what the loop does with the outcome r of func(*args).
AfterCall(r) ==
    IF r.raised
    THEN /\ aqaai' = r.ai
         /\ ended' = Exception("Error at line", aqaai.cur_line_num)
         /\ out' = StepOf("execute", TRUE)
    ELSE /\ aqaai' = Advance(r.ai)
         /\ out' = StepOf("execute", FALSE)
         /\ UNCHANGED ended

\* The loop is at an instruction that has a function.
AtInstruction ==
    /\ ended = Running
    /\ AtLine
    /\ ~Skipped(CurLine)
    /\ Known(CurLine)
    /\ Opcode(CurLine) \notin BranchInstructions \cup {"HALT"}

\* Lines 187-197: any other instruction. A line without arguments raises
\* AttributeError (None.split) outside the try; an exception of the
\* instruction becomes 'Error at line', and what the instruction assigned
\* before raising stays assigned.
Execute ==
    /\ AtInstruction
    /\ IF ArgsRawOf(CurLine) = Null
       THEN /\ ended' = Exception("AttributeError", aqaai.cur_line_num)
            /\ out' = StepOf("execute", TRUE)
            /\ UNCHANGED aqaai
       ELSE AfterCall(Call(aqaai, Opcode(CurLine), ArgsOf(The(ArgsRawOf(CurLine)))))
    /\ UNCHANGED <<judgeVars, args, poolVars, code_lines>>

NextAsm == RunOff \/ SkipLine \/ UnknownInstruction \/ Halt \/ Branch \/ Execute

SpecAsm == InitAsm /\ [][NextAsm]_vars

\* The last step dispatched an instruction to its function with the
\* arguments StepArgs.
Dispatched ==
    /\ out.kind = "execute"
    /\ ArgsRawOf(out.line) /= Null

StepArgs == ArgsOf(The(ArgsRawOf(out.line)))

\* The last step's instruction ran to its end.
Completed == Dispatched /\ ~out.raised

\* An unsigned byte.
IsByte(v) == \E n \in 0..255 : v = Some(n)

\* The register a register operand names, by position: R<n> for n in
\* 0..12, and what it is not.
IsNumber(ds) == ds /= <<>> /\ \A i \in 1..Len(ds) : ds[i] \in Digits

IsRegisterOperand(x) == x /= <<>> /\ Head(x) = "R" /\ IsNumber(Tail(x))

NamesRegister(x) ==
    IsRegisterOperand(x) /\ Decimal(Tail(x)) \in 0..(NUM_REGISTERS - 1)

NamesAddress(x) == IsNumber(x) /\ Decimal(x) \in 0..(NUM_MEM - 1)

IsImmediateOperand(x) ==
    /\ x /= <<>>
    /\ Head(x) = "#"
    /\ \/ IsNumber(Tail(x))
       \/ Tail(x) /= <<>> /\ Head(Tail(x)) \in {"-", "+"} /\ IsNumber(Tail(Tail(x)))

SameCells == /\ aqaai.registers = out.before.registers
             /\ aqaai.memory = out.before.memory

\* C16: after ADD, SUB, AND, ORR, EOR, MVN, LSL or LSR has executed, the
\* value in the destination register is in [0, 256).
C16_ArithmeticInRange ==
    (/\ Completed
     /\ Opcode(out.line) \in {"ADD", "SUB", "AND", "ORR", "EOR", "MVN",
                               "LSL", "LSR"}) =>
        LET dest == ListIndex(_get_register_number(StepArgs[1]), NUM_REGISTERS)
        IN  IsByte(aqaai.registers[The(dest)])

\* C17: in every state of a run started through the CLI entry point, each
\* register and each memory cell holds an integer in [0, 256).
C17_ByteCells ==
    /\ \A r \in DOMAIN aqaai.registers : IsByte(aqaai.registers[r])
    /\ \A m \in DOMAIN aqaai.memory : IsByte(aqaai.memory[m])

\* C18: an instruction whose register operand is not one of R0..R12, or
\* whose memory address is not an integer in 0..999, fails with an error at
\* its line and leaves every register and memory cell unchanged.
C18_BadAddressFails ==
    (/\ Dispatched
     /\ \/ ~NamesRegister(StepArgs[1])
        \/ /\ Opcode(out.line) \in {"LDR", "STR"}
           /\ Len(StepArgs) = 2
           /\ ~NamesAddress(StepArgs[2])) =>
        /\ out.raised
        /\ ended = Exception("Error at line", out.at)
        /\ SameCells

\* C19: a branch instruction whose label the program does not define
\* fails with an error at its line, whether the branch condition holds or
\* not.
C19_UnknownLabelFails ==
    (/\ out.kind = "branch"
     /\ \/ ArgsRawOf(out.line) = Null
        \/ ~InBranches(code_lines, The(ArgsRawOf(out.line)))) =>
        /\ out.raised
        /\ ended.how = "raise"
        /\ ended.line = out.at + 1

\* C20: a data operand of ADD, SUB, MOV, CMP, AND, ORR, EOR, MVN, LSL or
\* LSR that is neither a register nor an immediate makes the instruction
\* fail at its line, and an instruction that completes assigns None to no
\* register and to neither half of the comparison latch.
C20_MalformedOperandFails ==
    /\ (/\ Dispatched
        /\ Opcode(out.line) \in {"ADD", "SUB", "MOV", "CMP", "AND", "ORR",
                                  "EOR", "MVN", "LSL", "LSR"}
        /\ LET operand == StepArgs[Len(StepArgs)]
           IN  ~IsRegisterOperand(operand) /\ ~IsImmediateOperand(operand)) =>
           /\ out.raised
           /\ ended = Exception("Error at line", out.at)
    /\ Completed =>
           /\ \A r \in DOMAIN aqaai.registers :
                  aqaai.registers[r] /= out.before.registers[r]
                      => aqaai.registers[r] /= Null
           /\ aqaai.cmp_left /= out.before.cmp_left => aqaai.cmp_left /= Null
           /\ aqaai.cmp_right /= out.before.cmp_right => aqaai.cmp_right /= Null

ConditionalBranches == BranchInstructions \ {"B"}

\* The last step was a branch instruction.
Branched == out.kind = "branch"

\* C21: a conditional branch executed when no CMP has been executed
\* earlier in the run ends the run with the CMP-not-called error of that
\* branch at its line and leaves the program counter, the registers and
\* the memory as they were; B never ends a run with that error.
C21_BranchWithoutCmp ==
    /\ (/\ Branched
        /\ Opcode(out.line) \in ConditionalBranches
        /\ ~out.cmp_called) =>
           /\ out.raised
           /\ ended = Exception("CMP not called before " \o Opcode(out.line)
                                    \o " at line", out.at)
           /\ aqaai.cur_line_num = out.at
           /\ SameCells
    /\ (Branched /\ Opcode(out.line) = "B" /\ out.raised) =>
           ended = Exception("Invalid branch at line", out.at)

\* A conditional branch on the second line, after an instruction that is
\* not a CMP, has ended the run.
C21_Witness ==
    /\ Branched
    /\ Opcode(out.line) \in ConditionalBranches
    /\ ~out.cmp_called
    /\ out.at = 1
    /\ code_lines[1] = Ins2("MOV", Reg(<<"1">>), Imm(<<"7">>))
    /\ ended.how = "raise"

\* run_code is one thread of control: while it has not returned or raised,
\* its loop takes its next step. Execute can take a step, and one that
\* changes the state, exactly when AtInstruction holds, so that the last
\* conjunct is WF_vars(Execute) with AtInstruction for its ENABLED.
SpecAsmFair ==
    /\ SpecAsm
    /\ WF_vars(RunOff \/ SkipLine \/ UnknownInstruction \/ Halt \/ Branch)
    /\ ([]<>~AtInstruction \/ []<><<Execute>>_vars)

PastLastLine == aqaai.cur_line_num >= Len(code_lines)

\* The last step was a taken branch to a line not after its own.
BackwardTaken == Branched /\ ~out.raised /\ aqaai.cur_line_num <= out.at

\* C22: run_code returns only by executing HALT; once the program counter
\* is past the last line the run never returns and ends with an exception;
\* and a run in which no branch is taken backward ends.
C22_HaltOrFailure ==
    /\ [](ended.how = "return" => out.kind = "halt" /\ Opcode(out.line) = "HALT")
    /\ [](PastLastLine => ended.how /= "return")
    /\ (PastLastLine ~> ended.how = "raise")
    /\ <>(ended.how /= "running" \/ BackwardTaken)

\* A branch to the label defined on the last line has run off the end.
C22_Witness ==
    /\ code_lines = << <<"B", SP, "loop">>, <<"loop", ":">> >>
    /\ out.kind = "off"
    /\ out.at = 2
    /\ ended = Exception("IndexError", 2)

\* The last step was a branch that was taken.
BranchTaken ==
    /\ Branched
    /\ ~out.raised
    /\ \/ Opcode(out.line) = "B"
       \/ Relation(out.before, Opcode(out.line)).val

\* C27: only blank lines and lines that end with ':' are skipped, every
\* other line is dispatched as an instruction, and a taken branch to a
\* label goes on at the line immediately after a line that defines the
\* label.
C27_OnlyLabelsSkipped ==
    /\ out.kind = "skip" => out.line = <<>> \/ IsLabel(out.line)
    /\ out.kind \in {"unknown", "halt", "branch", "execute"} =>
           out.line /= <<>> /\ ~IsLabel(out.line)
    /\ BranchTaken =>
           aqaai.cur_line_num \in Defines(code_lines, The(ArgsRawOf(out.line)))

\* What the last step changed.
ChangedRegisters ==
    {r \in DOMAIN aqaai.registers : aqaai.registers[r] /= out.before.registers[r]}

ChangedMemory ==
    {m \in DOMAIN aqaai.memory \cup DOMAIN out.before.memory :
        MemoryAt(aqaai.memory, m) /= MemoryAt(out.before.memory, m)}

SameLatch == /\ aqaai.cmp_left = out.before.cmp_left
             /\ aqaai.cmp_right = out.before.cmp_right

\* The register and the memory cell the arguments of the last step name,
\* as sets: empty when the step's line names none.
Destination ==
    IF Dispatched /\ StepArgs[1] /= <<>>
    THEN ListIndex(_get_register_number(StepArgs[1]), NUM_REGISTERS)
    ELSE {}

Addressed ==
    IF Dispatched /\ Len(StepArgs) = 2
    THEN ListIndex(_get_memory_number(StepArgs[2]), NUM_MEM)
    ELSE {}

\* C28: a step changes only what its instruction names. LDR, MOV, ADD,
\* SUB, AND, ORR, EOR, MVN, LSL and LSR change no register but the
\* destination, no memory cell and not the latch; STR changes no memory
\* cell but the addressed one, no register and not the latch; CMP changes
\* no register and no memory cell; every other step changes no register,
\* no memory cell and not the latch, so that the latch a CMP has set is
\* still there after any later branches.
C28_FrameEffects ==
    /\ (out.kind = "execute"
        /\ Opcode(out.line) \in {"LDR", "MOV", "ADD", "SUB", "AND", "ORR",
                                  "EOR", "MVN", "LSL", "LSR"}) =>
           /\ ChangedRegisters \subseteq Destination
           /\ ChangedMemory = {}
           /\ SameLatch
    /\ (out.kind = "execute" /\ Opcode(out.line) = "STR") =>
           /\ ChangedRegisters = {}
           /\ ChangedMemory \subseteq Addressed
           /\ SameLatch
    /\ (out.kind = "execute" /\ Opcode(out.line) = "CMP") =>
           /\ ChangedRegisters = {}
           /\ ChangedMemory = {}
    /\ out.kind \in {"skip", "branch", "unknown", "halt", "off"} =>
           /\ ChangedRegisters = {}
           /\ ChangedMemory = {}
           /\ SameLatch

\* A branch after a CMP: the latch is as the CMP left it.
C28_Witness ==
    /\ Branched
    /\ out.cmp_called
    /\ aqaai.cmp_left = Some(0)
    /\ aqaai.cmp_right = Some(7)
    /\ out.before.cmp_right = Some(7)

\* The Result of a testcase the grader decided has just been yielded.
GraderDecided == gen = "suspended" /\ op = "judge" /\ last.gret /= {}

\* C25: in judge with a grader, the time and the memory of the Result
\* yielded for a testcase are those the sandbox recorded for the run of the
\* user's program on it, whatever the grader's run wrote to the same
\* metadata file afterwards.
C25_UserRunMetadata ==
    GraderDecided =>
        LET result == yielded[Len(yielded)]
            metadata == The(last.proc).meta
        IN  /\ result.time = TimeMs(metadata["time"])
            /\ result.memory = MemoryKB(metadata["max-rss"])

\* The grader ran in the sandbox after the user's program, and the
\* metadata file now holds the grader's record, another than the user's.
C25_Witness ==
    /\ GraderDecided
    /\ last.ginv /= {}
    /\ mf = Some(The(last.gproc).meta)
    /\ TimeMs(The(last.gproc).meta["time"]) /= yielded[Len(yielded)].time
    /\ MemoryKB(The(last.gproc).meta["max-rss"]) /= yielded[Len(yielded)].memory

\* ------------------------------------------- a SourceCode used a second time

\* A SourceCode after an operation in the sandbox of box_path has prepared
\* it: run_code set its box_path (line 244) and prepare_if_needed its
\* run_args; that sandbox has been cleaned up since and its files are gone.
PreparedIn(box_path, sc) ==
    prepare_if_needed([sc EXCEPT !.box_path = box_path], {},
                      [stderr |-> "", exe |-> TRUE]).sc

\* A grader as judge leaves it (line 119).
UsedGrader(l) ==
    PreparedIn(BoxB, [NewSourceCode(<<"grader">>, l, None, FALSE)
                          EXCEPT !.file_name = "grader"])

\* An operation as in Init, whose grader is a new SourceCode or one an
\* earlier judge in another sandbox has used.
InitReuse ==
    /\ op \in {"judge", "get_outputs"}
    /\ \E n \in 0..MaxTests : testcases = [i \in 1..n |-> TestcaseAt(i)]
    /\ \E l \in Limits : time_limit = l[1] /\ memory_limit = l[2]
    /\ file_in \in {None, "in.txt"}
    /\ file_out \in {None, "out.txt"}
    /\ \E l \in Language : source = NewSourceCode(<<"code">>, l, None, FALSE)
    /\ grader \in {Null} \cup
                  (IF op = "judge"
                   THEN {Some(NewSourceCode(<<"grader">>, l, None, FALSE)) :
                           l \in {"PYTHON", "CPLUSPLUS"}}
                        \cup {Some(UsedGrader(l)) : l \in {"PYTHON", "CPLUSPLUS"}}
                   ELSE {})
    /\ self = NewSandbox
    /\ box_live = TRUE
    /\ fs = {}
    /\ mf = Null
    /\ gen = "created"
    /\ idx = 0
    /\ requested = 0
    /\ yielded = <<>>
    /\ outputs = <<>>
    /\ cleanups = 0
    /\ compiles = <<>>
    /\ runs = <<>>
    /\ last = NoLast
    /\ FnIdle
    /\ PoolIdle
    /\ AsmIdle

SpecReuse == InitReuse /\ [][Next]_vars

\* The files the run of a prepared SourceCode needs in the box: its
\* program file, and its executable or the interpreter's copy.
ProgramFiles(sc) ==
    IF sc.language = "PYTHON" THEN {sc.file_name \o ".py"}
    ELSE IF sc.language = "CPLUSPLUS" THEN {sc.file_name \o ".cpp", sc.file_name}
    ELSE {sc.file_name \o ".aqaasm", "aqaasm.py"}

InBox(sc) ==
    \A name \in ProgramFiles(sc) : HasFile(fs, Join(self.box_path, name))

\* C23: whenever run_code has invoked the sandbox run for a SourceCode,
\* the source's or the grader's, that SourceCode's program file and its
\* executable or interpreter are in the box directory of the sandbox that
\* runs it.
C23_ProgramFileInBox ==
    /\ (gen \in {"classify", "suspended"} /\ last.inv /= {}) => InBox(source)
    /\ (gen = "suspended" /\ last.ginv /= {}) => InBox(The(grader))

\* ------------------------------------- the boxes, with runs and cleanup_all

\* The sandboxes of SpecPool, with the sandbox runs of their operations
\* and with cleanup_all called by any process at any time.
NextShared ==
    \/ \E o \in SandboxObjects :
          create(o) \/ StartOperation(o) \/ RunInBox(o) \/ cleanup(o)
    \/ cleanup_all
    \/ SweepBox

SpecShared == InitPool /\ [][NextShared]_vars

\* C24: an IsolateSandbox issues no sandbox run (and no compile or file
\* write) for its box_id after it has cleaned that id up: whenever one of
\* its operations runs code, the object holds a box it has initialised and
\* not cleaned up since, also in a second operation on the same object.
C24_NoRunAfterCleanup ==
    \A o \in SandboxObjects : sandboxes[o].ran /= "stale"

\* The sandbox object o is in an operation, on a box it initialised, has
\* not cleaned up, and that is still there.
Judging(o) ==
    /\ sandboxes[o].pc = "judging"
    /\ sandboxes[o].live
    /\ The(sandboxes[o].box_id) \in boxes

\* C26: cleanup_all releases only boxes that no live IsolateSandbox owns:
\* no step of a cleanup_all removes the box of an operation in progress.
C26_SweepSparesLive ==
    [][SweepBox =>
          \A o \in SandboxObjects :
              Judging(o) => The(sandboxes[o].box_id) \in boxes']_vars

====
